---- MODULE Spec2Model ----
(***************************************************************************)
(* A model of tatami's desktop backend (apps/desktop/src-tauri): the       *)
(* mutation commands jj_new / jj_edit / jj_abandon (repo/jj.rs, lib.rs)    *)
(* and the log queries fetch_log / resolve_revset (repo/log.rs), the       *)
(* revision diff (lib.rs, repo/diff.rs), the watcher registry (watcher.rs) *)
(* and the layout storage (storage.rs).                                    *)
(*                                                                         *)
(* Commit ids are index positions 1..Len(commits) (1 is the root, parents  *)
(* have smaller positions than children).  Change ids are byte sequences;  *)
(* text is a sequence of one-character strings.                            *)
(***************************************************************************)
EXTENDS Integers, Sequences, FiniteSets, TLC

VARIABLES
    commits,    \* the commit store: Seq of [change_id, parents, tree, author]
    view,       \* the View at the operation-log head
    wc_tree,    \* the tree materialized in the opened workspace's directory
    call,       \* per caller: the position and locals of its mutation call
    query,      \* the last fetch_log / resolve_revset call and its result
    watchers,   \* WatcherManager.watchers: per path, the debouncer it holds
    repo_dirs,  \* the paths under which the directory .jj/repo exists
    debouncers, \* the number of debouncers created so far
    layout,     \* Storage.layout: the AppLayout kept in memory
    db,         \* the database: the ids in `projects`, the row 'main' of `layout`
    tasks,      \* per task: the position of its delete_project call
    last        \* the last watcher or storage call that returned

\* the repository and its callers
repoVars == <<commits, view, wc_tree, call, query>>

\* the application state beside the repository
appVars == <<watchers, repo_dirs, debouncers, layout, db, tasks, last>>

vars == <<commits, view, wc_tree, call, query,
          watchers, repo_dirs, debouncers, layout, db, tasks, last>>

(***************************************************************************)
(* Bounds of the model.                                                    *)
(***************************************************************************)
MaxCommits == 8      \* the store holds at most this many commits
MaxParents == 2      \* longest parent list passed to new_revision
MaxLimit == 3        \* largest limit passed to fetch_log

(***************************************************************************)
(* The application state at start-up.                                      *)
(***************************************************************************)
\* Option<T>
None == <<>>
Some(x) == <<x>>

\* the repository paths handed to watch and unwatch
WatchPaths == {"/r1", "/r2"}

\* the tasks that call delete_project
Tasks == {"t1"}

\* AppLayout::default()
DefaultLayout ==
    [active_project_id |-> None, selected_change_id |-> None, sidebar_width |-> 25]

\* a task outside delete_project
IdleTask == [pc |-> "idle", id |-> "", active_at_delete |-> None]

\* no watcher or storage call has returned yet
NoCall == [op |-> "none"]

\* WatcherManager::new() and Storage::new() on an empty database
AppInit ==
    /\ watchers = [path \in WatchPaths |-> None]
    /\ repo_dirs = {}
    /\ debouncers = 0
    /\ layout = DefaultLayout
    /\ db = [projects |-> {}, layout |-> None]
    /\ tasks = [t \in Tasks |-> IdleTask]
    /\ last = NoCall

(***************************************************************************)
(* Text and the identifier codec.                                          *)
(***************************************************************************)
Min(a, b) == IF a < b THEN a ELSE b

\* first n elements of s (Rust's iterator take / slice [..n] within range)
Take(s, n) == SubSeq(s, 1, Min(n, Len(s)))

IsPrefix(p, s) == Len(p) <= Len(s) /\ SubSeq(s, 1, Len(p)) = p

\* 'z' - v for a nibble v in 0..15
Alphabet == <<"z", "y", "x", "w", "v", "u", "t", "s",
              "r", "q", "p", "o", "n", "m", "l", "k">>

\* variant: 'k' + v
NibbleCharAscending(v) == Alphabet[16 - v]

NibbleChar(v) == Alphabet[v + 1]

RECURSIVE ReverseHex(_)
ReverseHex(bytes) ==
    IF bytes = <<>> THEN <<>>
    ELSE <<NibbleChar(Head(bytes) \div 16), NibbleChar(Head(bytes) % 16)>>
         \o ReverseHex(Tail(bytes))

\* number of leading change-id bytes format_change_id encodes
EncodedBytes == 6

format_change_id(change_id) == ReverseHex(SubSeq(change_id, 1, EncodedBytes))

\* HexPrefix::try_from_reverse_hex accepts exactly the characters 'k'..'z'
ValidReverseHex(text) ==
    \A i \in 1..Len(text) : \E v \in 0..15 : text[i] = NibbleChar(v)

(***************************************************************************)
(* The repository fixture: a store of seven commits and the views over it. *)
(***************************************************************************)
RootChange == <<0, 0, 0, 0, 0, 0, 0>>
ChangeA == <<1, 0, 0, 0, 0, 0, 0>>
ChangeB == <<1, 16, 0, 0, 0, 0, 0>>
ChangeC == <<255, 0, 0, 0, 0, 0, 0>>
\* differs from ChangeA only after the first EncodedBytes bytes
ChangeD == <<1, 0, 0, 0, 0, 0, 1>>
\* change ids given to commits written by new_revision
FreshChanges == <<<<2, 0, 0, 0, 0, 0, 0>>, <<3, 0, 0, 0, 0, 0, 0>>,
                  <<4, 0, 0, 0, 0, 0, 0>>, <<5, 0, 0, 0, 0, 0, 0>>>>

UserEmail == "me@x"

Commit(change, parents, tree, author) ==
    [change_id |-> change, parents |-> parents, tree |-> tree, author |-> author]

InitialCommits ==
    << Commit(RootChange, <<>>, 0, ""),
       Commit(ChangeA, <<1>>, 1, "me@x"),
       Commit(ChangeC, <<2>>, 2, "me@x"),
       Commit(ChangeB, <<2>>, 3, "other@x"),
       Commit(ChangeB, <<2>>, 4, "ME@x"),       \* diverges from commit 4
       Commit(ChangeD, <<1>>, 5, "other@x"),    \* encodes like commit 2
       Commit(ChangeB, <<1>>, 6, "me@x") >>     \* diverges from 4 and 5

RootId == 1

\* the workspace at the path the commands are given, and another one
WorkspaceName == "default"
OtherWorkspace == "alpha"

NoCommit == 0
NoTree == -1

\* head sets of the initial views: plain, two and three divergent commits,
\* two change ids with the same encoding
InitialHeads == { {3, 4}, {3, 4, 5}, {3, 4, 5, 7}, {3, 4, 6} }

\* a remote bookmark: its target, whether it is tracked, and its remote
RemoteBookmark(target, tracked, remote) ==
    [target |-> target, tracked |-> tracked, remote |-> remote]

InitialView(heads, wc, other) ==
    [ heads |-> heads,
      wc_commit_ids |-> IF other = NoCommit
                        THEN (WorkspaceName :> wc)
                        ELSE (WorkspaceName :> wc) @@ (OtherWorkspace :> other),
      local_bookmarks |-> ("feat" :> 3),
      remote_bookmarks |-> ("main" :> RemoteBookmark(2, TRUE, "origin")),
      tags |-> {} ]

(***************************************************************************)
(* Graph helpers over a store.                                             *)
(***************************************************************************)
Range(s) == { s[i] : i \in 1..Len(s) }

Parents(store, S) == UNION { Range(store[c].parents) : c \in S }

RECURSIVE Ancestors(_, _)
\* S and everything reachable from S over parent edges
Ancestors(store, S) ==
    LET next == S \cup Parents(store, S)
    IN IF next = S THEN S ELSE Ancestors(store, next)

\* the commits a view shows: the ancestors of its heads
Visible(store, v) == Ancestors(store, v.heads)

(***************************************************************************)
(* JjRepo::resolve_change_id                                               *)
(***************************************************************************)
\* the visible commits whose change id starts with the prefix
MatchingCommits(store, v, prefix) ==
    { c \in Visible(store, v) : IsPrefix(prefix, ReverseHex(store[c].change_id)) }

MatchingChanges(store, v, prefix) ==
    { store[c].change_id : c \in MatchingCommits(store, v, prefix) }

\* "invalid" | "not_found" | "ambiguous" | "single"
resolve_change_id(store, v, prefix) ==
    IF ~ValidReverseHex(prefix) THEN "invalid"
    ELSE CASE Cardinality(MatchingChanges(store, v, prefix)) = 0 -> "not_found"
           [] Cardinality(MatchingChanges(store, v, prefix)) = 1 -> "single"
           [] OTHER -> "ambiguous"

\* variant: an ambiguous prefix is taken for a match
ResolvedCommitsLoose(store, v, prefix) ==
    IF resolve_change_id(store, v, prefix) \in {"single", "ambiguous"}
    THEN MatchingCommits(store, v, prefix)
    ELSE {}

\* the commit ids a reference yields: those of its single matching change,
\* none when the reference is malformed, unknown or ambiguous
ResolvedCommits(store, v, prefix) ==
    IF resolve_change_id(store, v, prefix) = "single"
    THEN MatchingCommits(store, v, prefix)
    ELSE {}

(***************************************************************************)
(* The mutation calls: one record per caller.                              *)
(***************************************************************************)
NumCallers == 2
Callers == 1..NumCallers

EmptyView ==
    [ heads |-> {}, wc_commit_ids |-> <<>>, local_bookmarks |-> <<>>,
      remote_bookmarks |-> <<>>, tags |-> {} ]

\* reference texts the callers pass
RefC == <<"k">>                 \* ChangeC
RefB == <<"z", "y", "y">>       \* ChangeB
RefRoot == <<"z", "z">>         \* the root change
RefAmbiguous == <<"z", "y">>    \* ChangeA, ChangeB, ChangeD
RefNone == <<"q">>              \* no change
RefInvalid == <<"1">>           \* not reverse hex
RefFresh == <<"z", "x">>        \* the first change written by new_revision
RefA == <<"z", "y", "z">>       \* ChangeA (and ChangeD where visible)

ParentRefs == {RefC, RefA, RefNone}
TargetRefs == {RefC, RefB, RefRoot, RefAmbiguous, RefNone, RefInvalid, RefFresh}
AbandonRefs == {RefC, RefNone}

RECURSIVE SeqsUpTo(_, _)
\* the sequences over S of length at most n
SeqsUpTo(S, n) ==
    IF n = 0 THEN {<<>>}
    ELSE LET shorter == SeqsUpTo(S, n - 1)
         IN shorter \cup { Append(s, x) : s \in shorter, x \in S }

IdleCall ==
    [ pc |-> "idle", op |-> "none", refs |-> <<>>,
      repo |-> EmptyView, tx |-> EmptyView,
      parent_commits |-> <<>>, commit |-> NoCommit, old_tree_id |-> NoTree,
      result |-> "none", committed |-> FALSE, check_out |-> "none",
      \* the tree the directory held when check_out was entered
      dir_tree |-> NoTree,
      \* the repository as it was when the command was invoked
      pre |-> EmptyView, pre_len |-> 0, pre_tree |-> NoTree ]

\* calls that have started and not yet returned
Running(c) == call[c].pc \notin {"idle", "done"}

\* a call returns: its result is set and its locals are dropped
Return(c, result) ==
    [call EXCEPT ![c].pc = "done", ![c].result = result]

\* new_revision calls that may still write a commit
PendingWrites ==
    Cardinality({ c \in Callers : call[c].op = "new" /\ call[c].pc \in {"open", "resolve"} })

\* jj_new / jj_edit / jj_abandon are invoked with their arguments
Invoke(c, op, refs) ==
    /\ ~Running(c)
    /\ op = "new" => Len(commits) + PendingWrites < MaxCommits
    /\ call' = [call EXCEPT ![c] =
                  [IdleCall EXCEPT !.pc = "open", !.op = op, !.refs = refs,
                                   !.pre = view, !.pre_len = Len(commits),
                                   !.pre_tree = wc_tree]]
    /\ UNCHANGED <<commits, view, wc_tree, query, appVars>>

\* the parent lists passed to jj_new: no reference twice
ParentLists ==
    { s \in SeqsUpTo(ParentRefs, MaxParents) :
        \A i, j \in 1..Len(s) : i # j => s[i] # s[j] }

jj_new(c) == \E refs \in ParentLists : Invoke(c, "new", refs)

jj_edit(c) == \E ref \in TargetRefs : Invoke(c, "edit", <<ref>>)

jj_abandon(c) == \E ref \in AbandonRefs : Invoke(c, "abandon", <<ref>>)

\* JjRepo::open, load_at_head and start_transaction
Load(c) ==
    /\ call[c].pc = "open"
    /\ \E ok \in BOOLEAN :
        call' = IF ok
                THEN [call EXCEPT ![c].pc = "resolve", ![c].repo = view, ![c].tx = view]
                ELSE Return(c, "Failed to open repo")
    /\ UNCHANGED <<commits, view, wc_tree, query, appVars>>

ResolveError(kind) ==
    CASE kind = "invalid" -> "Invalid change ID prefix format"
      [] kind = "not_found" -> "Change ID not found"
      [] kind = "ambiguous" -> "Ambiguous change ID prefix"
      [] OTHER -> "No commit ID found"

\* variant: the pointer of every workspace is moved
set_wc_commit_everywhere(v, name, commit) ==
    [v EXCEPT !.wc_commit_ids =
        [ws \in DOMAIN v.wc_commit_ids \cup {name} |-> commit]]

\* MutableRepo::set_wc_commit on the transaction's view
set_wc_commit(v, name, commit) ==
    [v EXCEPT !.wc_commit_ids =
        [ws \in DOMAIN v.wc_commit_ids \cup {name} |->
            IF ws = name THEN commit ELSE v.wc_commit_ids[ws]]]

\* new_revision's loop: resolve the next parent reference and read its commit
ResolveParent(c) ==
    LET me == call[c]
        ref == me.refs[Len(me.parent_commits) + 1]
        kind == resolve_change_id(commits, me.repo, ref)
    IN /\ me.pc = "resolve" /\ me.op = "new"
       /\ Len(me.parent_commits) < Len(me.refs)
       /\ IF ResolvedCommits(commits, me.repo, ref) = {}
          THEN call' = Return(c, ResolveError(kind))
          ELSE \E id \in ResolvedCommits(commits, me.repo, ref), ok \in BOOLEAN :
                 call' = IF ok
                         THEN [call EXCEPT ![c].parent_commits = Append(@, id)]
                         ELSE Return(c, "Failed to get commit")
       /\ UNCHANGED <<commits, view, wc_tree, query, appVars>>

\* the tree of the commit the loaded view records as the workspace's working copy
OldTree(store, v) ==
    IF WorkspaceName \in DOMAIN v.wc_commit_ids
    THEN store[v.wc_commit_ids[WorkspaceName]].tree
    ELSE NoTree

\* variant: the from-tree is read from the view the transaction has built
FromTreeOfTransaction(store, repo, tx) == OldTree(store, tx)

\* the from-tree handed to check_out: read through `repo`, the snapshot loaded
\* at the start of the call, after the transaction has moved its own pointer
FromTree(store, repo, tx) == OldTree(store, repo)

\* variant: the tree of the last parent is taken
NewCommitLastParentTree(store, parent_commits) ==
    Commit(FreshChanges[Len(store) + 1 - Len(InitialCommits)],
           parent_commits, store[parent_commits[Len(parent_commits)]].tree, UserEmail)

\* the commit new_revision writes: the tree of the first parent, the parents
\* in the order they were resolved
NewCommit(store, parent_commits) ==
    Commit(FreshChanges[Len(store) + 1 - Len(InitialCommits)],
           parent_commits, store[parent_commits[1]].tree, UserEmail)

\* new_revision after the loop: write the commit, point the working copy at it
WriteCommit(c) ==
    LET me == call[c]
        id == Len(commits) + 1
        new_commit == NewCommit(commits, me.parent_commits)
        heads == (me.tx.heads \ Range(me.parent_commits)) \cup {id}
    IN /\ me.pc = "resolve" /\ me.op = "new"
       /\ Len(me.parent_commits) = Len(me.refs)
       /\ IF me.parent_commits = <<>>
          THEN /\ call' = Return(c, "No parent commits provided")
               /\ UNCHANGED commits
          ELSE \E written \in BOOLEAN, read \in BOOLEAN :
                 IF ~written
                 THEN /\ call' = Return(c, "Failed to write commit")
                      /\ UNCHANGED commits
                 ELSE /\ commits' = Append(commits, new_commit)
                      /\ call' =
                           IF OldTree(commits, me.repo) = NoTree
                           THEN Return(c, "No working copy commit")
                           ELSE IF ~read
                           THEN Return(c, "Failed to get old commit")
                           ELSE [call EXCEPT
                                   ![c].pc = "commit",
                                   ![c].commit = id,
                                   ![c].tx = set_wc_commit([me.tx EXCEPT !.heads = heads],
                                                           WorkspaceName, id),
                                   ![c].old_tree_id =
                                     FromTree(commits', me.repo,
                                              set_wc_commit([me.tx EXCEPT !.heads = heads],
                                                            WorkspaceName, id))]
       /\ UNCHANGED <<view, wc_tree, query, appVars>>

\* edit_revision up to the transaction commit
EditResolve(c) ==
    LET me == call[c]
        kind == resolve_change_id(commits, me.repo, me.refs[1])
    IN /\ me.pc = "resolve" /\ me.op = "edit"
       /\ IF ResolvedCommits(commits, me.repo, me.refs[1]) = {}
          THEN call' = Return(c, ResolveError(kind))
          ELSE \E id \in ResolvedCommits(commits, me.repo, me.refs[1]),
                  got \in BOOLEAN, read \in BOOLEAN :
                 call' =
                   IF ~got THEN Return(c, "Failed to get commit")
                   ELSE IF id = RootId
                   THEN Return(c, "Failed to set working copy commit")
                   ELSE IF OldTree(commits, me.repo) = NoTree
                   THEN Return(c, "No working copy commit")
                   ELSE IF ~read THEN Return(c, "Failed to get old commit")
                   ELSE [call EXCEPT
                           ![c].pc = "commit",
                           ![c].commit = id,
                           ![c].tx = set_wc_commit(me.tx, WorkspaceName, id),
                           ![c].old_tree_id =
                             FromTree(commits, me.repo,
                                      set_wc_commit(me.tx, WorkspaceName, id))]
       /\ UNCHANGED <<commits, view, wc_tree, query, appVars>>

\* abandon_revision up to the transaction commit: the abandoned head gives
\* way to its parents; rebasing descendants is the store's business
AbandonResolve(c) ==
    LET me == call[c]
        kind == resolve_change_id(commits, me.repo, me.refs[1])
    IN /\ me.pc = "resolve" /\ me.op = "abandon"
       /\ IF ResolvedCommits(commits, me.repo, me.refs[1]) = {}
          THEN call' = Return(c, ResolveError(kind))
          ELSE \E id \in ResolvedCommits(commits, me.repo, me.refs[1]) :
                 call' =
                   IF id = RootId THEN Return(c, "Cannot abandon the root commit")
                   ELSE [call EXCEPT
                           ![c].pc = "commit",
                           ![c].commit = id,
                           ![c].tx = IF id \in me.tx.heads
                                     THEN [me.tx EXCEPT !.heads =
                                             (@ \ {id}) \cup
                                             (Range(commits[id].parents)
                                                \ Ancestors(commits, @ \ {id}))]
                                     ELSE me.tx]
       /\ UNCHANGED <<commits, view, wc_tree, query, appVars>>

\* the view at the head after an operation made on `base` with result `tx`
\* is published over the current head `cur`
PublishView(cur, base, tx) ==
    [ cur EXCEPT
        !.heads = (cur.heads \ (base.heads \ tx.heads)) \cup (tx.heads \ base.heads),
        !.wc_commit_ids =
            [ws \in DOMAIN cur.wc_commit_ids \cup DOMAIN tx.wc_commit_ids |->
                IF /\ ws \in DOMAIN tx.wc_commit_ids
                   /\ \/ ws \notin DOMAIN base.wc_commit_ids
                      \/ ws \notin DOMAIN cur.wc_commit_ids
                      \/ tx.wc_commit_ids[ws] # base.wc_commit_ids[ws]
                THEN tx.wc_commit_ids[ws]
                ELSE cur.wc_commit_ids[ws]] ]

\* variant: the result of tx.commit is ignored and the checkout goes ahead
CommitFailedIgnored(c) == [call EXCEPT ![c].pc = "check_out"]

\* the caller's state once tx.commit has failed: the error is propagated
CommitFailed(c) == Return(c, "Failed to commit transaction")

\* tx.commit(...): the store accepts or rejects the transaction
CommitTx(c) ==
    LET me == call[c]
    IN /\ me.pc = "commit"
       /\ \E ok \in BOOLEAN :
            IF ~ok
            THEN /\ call' = CommitFailed(c)
                 /\ UNCHANGED view
            ELSE /\ view' = PublishView(view, me.repo, me.tx)
                 /\ call' = IF me.op = "abandon"
                            THEN [Return(c, "ok") EXCEPT ![c].committed = TRUE]
                            ELSE [call EXCEPT ![c].pc = "check_out",
                                              ![c].committed = TRUE]
       /\ UNCHANGED <<commits, wc_tree, query, appVars>>

\* variant: the checkout error is swallowed and the command reports success
CheckOutFailedSwallowed(c) ==
    [Return(c, "ok") EXCEPT ![c].check_out = "failed"]

\* the caller's state once check_out has failed: the error is propagated
CheckOutFailed(c) ==
    [Return(c, "Failed to check out") EXCEPT ![c].check_out = "failed"]

\* Workspace::check_out(operation_id, Some(old_tree_id), commit): refused when
\* the directory does not hold old_tree_id, and it may fail while writing
CheckOut(c) ==
    LET me == call[c]
    IN /\ me.pc = "check_out"
       /\ \E ok \in BOOLEAN :
            IF wc_tree # me.old_tree_id \/ ~ok
            THEN /\ call' = [CheckOutFailed(c) EXCEPT ![c].dir_tree = wc_tree]
                 /\ UNCHANGED wc_tree
            ELSE /\ wc_tree' = commits[me.commit].tree
                 /\ call' = [Return(c, "ok") EXCEPT ![c].check_out = "done",
                                                    ![c].dir_tree = wc_tree]
       /\ UNCHANGED <<commits, view, query, appVars>>

NoQuery == [kind |-> "none"]

\* the repository the mutation commands start from: commits 4 and 5 diverge,
\* "alpha" is a second workspace, and the opened workspace may be unrecorded
Init ==
    /\ commits = InitialCommits
    /\ \E wc \in {4, NoCommit} :
         /\ view = IF wc = NoCommit
                   THEN [InitialView({3, 4, 5}, 3, 3) EXCEPT
                           !.wc_commit_ids = (OtherWorkspace :> 3)]
                   ELSE InitialView({3, 4, 5}, wc, 3)
         /\ wc_tree = IF wc = NoCommit THEN 0 ELSE InitialCommits[wc].tree
    /\ call = [c \in Callers |-> IdleCall]
    /\ query = NoQuery
    /\ AppInit

\* one step of caller c
Step(c) ==
    \/ jj_new(c)
    \/ jj_edit(c)
    \/ jj_abandon(c)
    \/ Load(c)
    \/ ResolveParent(c)
    \/ WriteCommit(c)
    \/ EditResolve(c)
    \/ AbandonResolve(c)
    \/ CommitTx(c)
    \/ CheckOut(c)

\* the commands are issued one after another by a single caller
Next == Step(1)

Spec == Init /\ [][Next]_vars

\* the commands are issued by the callers with no coordination, each caller
\* issuing one command
InvokeOnce(c) ==
    /\ call[c].pc = "idle"
    /\ \/ \E ref \in {RefC, RefA} : Invoke(c, "new", <<ref>>)
       \/ \E ref \in {RefC, RefB} : Invoke(c, "edit", <<ref>>)
       \/ Invoke(c, "abandon", <<RefC>>)

StepConc(c) ==
    \/ InvokeOnce(c)
    \/ Load(c)
    \/ ResolveParent(c)
    \/ WriteCommit(c)
    \/ EditResolve(c)
    \/ AbandonResolve(c)
    \/ CommitTx(c)
    \/ CheckOut(c)

NextConc == \E c \in Callers : StepConc(c)

\* the repository interleaved commands start from: as Init, or with commit 3
\* as the working copy, so that a new revision on "k" keeps the directory's tree
InitConc ==
    \/ Init
    \/ /\ commits = InitialCommits
       /\ view = InitialView({3, 4, 5}, 3, 3)
       /\ wc_tree = InitialCommits[3].tree
       /\ call = [c \in Callers |-> IdleCall]
       /\ query = NoQuery
       /\ AppInit

SpecConc == InitConc /\ [][NextConc]_vars

(***************************************************************************)
(* Revsets (repo/log.rs).  Query texts are atoms; the texts below are the  *)
(* ones the model evaluates.                                               *)
(***************************************************************************)
PresetMyWork == "mine() | present(@)"
PresetActive == "present(@) | ancestors(immutable_heads().., 2) | present(trunk())"
PresetFullHistory == "ancestors(visible_heads())"

\* variant: a preset, when given, wins over the raw revset
RevsetStrPresetFirst(revset, preset) ==
    IF preset # None
    THEN CASE preset[1] = "my_work" -> PresetMyWork
           [] preset[1] = "active" -> PresetActive
           [] preset[1] = "full_history" -> PresetFullHistory
           [] OTHER -> PresetActive
    ELSE IF revset # None THEN revset[1] ELSE PresetActive

\* fetch_log: the query text it evaluates
RevsetStr(revset, preset) ==
    IF revset # None THEN revset[1]
    ELSE IF preset # None
    THEN CASE preset[1] = "my_work" -> PresetMyWork
           [] preset[1] = "active" -> PresetActive
           [] preset[1] = "full_history" -> PresetFullHistory
           [] OTHER -> PresetActive
    ELSE PresetActive

Max(S) == CHOOSE m \in S : \A x \in S : x <= m

RECURSIVE SortDesc(_)
\* index order: children before parents
SortDesc(S) ==
    IF S = {} THEN <<>> ELSE <<Max(S)>> \o SortDesc(S \ {Max(S)})

\* `@`: the working-copy commit of the opened workspace
WcSet(v) ==
    IF WorkspaceName \in DOMAIN v.wc_commit_ids
    THEN {v.wc_commit_ids[WorkspaceName]}
    ELSE {}

\* latest(X): commits are stamped in index order, the root with the epoch
Latest(S) == IF S = {} THEN {} ELSE {Max(S)}

\* variant: only the bookmark main is looked at
TrunkMainOnly(v) ==
    Latest({ v.remote_bookmarks[n].target :
                n \in { m \in {"main"} \cap DOMAIN v.remote_bookmarks :
                         v.remote_bookmarks[m].remote = "origin" } }
           \cup {RootId})

\* the alias trunk()
Trunk(v) ==
    Latest({ v.remote_bookmarks[n].target :
                n \in { m \in {"main", "master", "trunk"} \cap DOMAIN v.remote_bookmarks :
                         v.remote_bookmarks[m].remote = "origin" } }
           \cup {RootId})

\* the alias immutable_heads()
ImmutableHeads(v) ==
    Trunk(v) \cup v.tags
    \cup { v.remote_bookmarks[n].target :
             n \in { m \in DOMAIN v.remote_bookmarks : ~v.remote_bookmarks[m].tracked } }

\* exact-i: ASCII case folding of the addresses the fixture uses
Lowercase(text) == IF text = "ME@x" THEN "me@x" ELSE text

\* the alias mine()
Mine(store, v) ==
    { c \in Visible(store, v) : Lowercase(store[c].author) = Lowercase(UserEmail) }

ParseFails(text) == text = "(("

ResolveFails(v, text) == text = "nosuch" \/ (text = "@" /\ WcSet(v) = {})

\* the commits a parsed and resolved query text selects
Evaluate(store, v, text) ==
    CASE text = PresetMyWork -> Mine(store, v) \cup WcSet(v)
      [] text = PresetActive ->
            LET mutable == Visible(store, v) \ Ancestors(store, ImmutableHeads(v))
            IN WcSet(v) \cup mutable \cup (Parents(store, mutable) \cap Visible(store, v))
               \cup Trunk(v)
      [] text = PresetFullHistory -> Visible(store, v)
      [] text = "all()" -> Visible(store, v)
      [] text = "@" -> WcSet(v)
      [] text = "root()" -> {RootId}
      [] text = "visible_heads() | root()" -> v.heads \cup {RootId}
      [] text = "::trunk()" -> Ancestors(store, Trunk(v))
      [] OTHER -> {}

\* the order in which a revset is iterated
Iterate(store, v, text) == SortDesc(Evaluate(store, v, text))

(***************************************************************************)
(* What the environment makes fail in one query: nothing, opening the      *)
(* repository, evaluation, root(), ::trunk(), the index lookups, or the    *)
(* at-th element of the iteration ("iterate") resp. the at-th commit read  *)
(* ("read").                                                               *)
(***************************************************************************)
Failure(kind, at) == [kind |-> kind, at |-> at]

NoFailure == Failure("none", 0)

Failures ==
    { Failure(k, 0) : k \in {"none", "open", "evaluate", "root", "trunk", "index"} }
    \cup { Failure(k, at) : k \in {"iterate", "read"}, at \in 1..(MaxLimit + 1) }

Ok(value) == [status |-> "ok", error |-> "", value |-> value]
Err(message) == [status |-> "err", error |-> message, value |-> <<>>]
Panic == [status |-> "panic", error |-> "byte index out of range", value |-> <<>>]

(***************************************************************************)
(* fetch_log                                                               *)
(***************************************************************************)
NoIndex == -1

Digits == <<"0", "1", "2", "3", "4", "5", "6", "7", "8", "9">>

RECURSIVE Decimal(_)
\* format!("{}", n)
Decimal(n) ==
    IF n < 10 THEN <<Digits[n + 1]>>
    ELSE Decimal(n \div 10) \o <<Digits[(n % 10) + 1]>>

\* variant: one element too many is taken
graph_nodes_one_more(all, limit) == Take(all, limit + 1)

\* iter_graph().take(limit)
graph_nodes(all, limit) == Take(all, limit)

\* variant: the whole encoded id is always used
full_change_id_len(store, v, change_id) == Len(format_change_id(change_id))

\* repo.shortest_unique_change_id_prefix_len: the least length at which the
\* change id differs from every other visible change id
shortest_unique_change_id_prefix_len(store, v, change_id) ==
    LET hex == ReverseHex(change_id)
        others == { ReverseHex(store[c].change_id) : c \in Visible(store, v) } \ {hex}
    IN CHOOSE n \in 1..Len(hex) :
         /\ \A o \in others : SubSeq(o, 1, n) # SubSeq(hex, 1, n)
         /\ \A m \in 1..(n - 1) : \E o \in others : SubSeq(o, 1, m) = SubSeq(hex, 1, m)

\* first pass: how many of the change-id strings equal the i-th
change_id_counts(change_ids, i) ==
    Cardinality({ j \in 1..Len(change_ids) : change_ids[j] = change_ids[i] })

\* variant: the index starts at 1
divergent_index_from_one(change_ids, i) ==
    IF change_id_counts(change_ids, i) > 1
    THEN Cardinality({ j \in 1..i : change_ids[j] = change_ids[i] })
    ELSE NoIndex

\* second pass: the number of earlier occurrences of a divergent change id
divergent_index(change_ids, i) ==
    IF change_id_counts(change_ids, i) > 1
    THEN Cardinality({ j \in 1..(i - 1) : change_ids[j] = change_ids[i] })
    ELSE NoIndex

\* the workspace names in BTreeMap order
WorkspaceOrder == <<OtherWorkspace, WorkspaceName>>

\* view.wc_commit_ids().values().next()
FirstWcCommit(v) ==
    LET present == SelectSeq(WorkspaceOrder, LAMBDA ws : ws \in DOMAIN v.wc_commit_ids)
    IN IF present = <<>> THEN NoCommit ELSE v.wc_commit_ids[present[1]]

get_bookmarks_for_commit(v, commit_id) ==
    { name \in DOMAIN v.local_bookmarks : v.local_bookmarks[name] = commit_id }

\* the length the encoded change id is cut to for the i-th node
PrefixLen(store, v, nodes, i, fail) ==
    IF fail.kind = "index"
    THEN Len(format_change_id(store[nodes[i]].change_id))
    ELSE shortest_unique_change_id_prefix_len(store, v, store[nodes[i]].change_id)

RECURSIVE NearestInSet(_, _, _)
\* the commits of S first met when walking from p towards the root
NearestInSet(store, S, p) ==
    IF p \in S THEN {p}
    ELSE UNION { NearestInSet(store, S, q) : q \in Range(store[p].parents) }

GraphEdge(target, edge_type) == [target |-> target, edge_type |-> edge_type]

\* the edges iter_graph yields with a node of the revset S: a Direct edge to
\* a parent in S, Indirect edges to the nearest ancestors in S behind a
\* parent outside S, a Missing edge to a parent with no ancestor in S.  The
\* histories here have no merge commit, so no edge is transitive.
GraphEdges(store, S, node) ==
    UNION { IF p \in S THEN {GraphEdge(p, "Direct")}
            ELSE IF NearestInSet(store, S, p) = {} THEN {GraphEdge(p, "Missing")}
            ELSE { GraphEdge(a, "Indirect") : a \in NearestInSet(store, S, p) } :
            p \in Range(store[node].parents) }

\* variant: every edge is reported as direct
edge_type_direct(edge_type) == "direct"

\* match edge.edge_type { .. }
edge_type_text(edge_type) ==
    CASE edge_type = "Direct" -> "direct"
      [] edge_type = "Indirect" -> "indirect"
      [] edge_type = "Missing" -> "missing"

ParentEdge(edge) ==
    [parent_id |-> edge.target, edge_type |-> edge_type_text(edge.edge_type)]

\* the record fetch_log builds for the i-th node
MakeRevision(store, v, S, nodes, i, fail) ==
    LET commit_id == nodes[i]
        commit == store[commit_id]
        change_ids == [j \in 1..Len(nodes) |-> format_change_id(store[nodes[j]].change_id)]
        full_change_id == change_ids[i]
        index == divergent_index(change_ids, i)
        prefix == SubSeq(full_change_id, 1, PrefixLen(store, v, nodes, i, fail))
    IN [ commit_id |-> commit_id,
         change_id |-> full_change_id,
         change_id_short |-> IF index # NoIndex
                             THEN prefix \o <<"/">> \o Decimal(index)
                             ELSE prefix,
         parent_ids |-> commit.parents,
         parent_edges |-> { ParentEdge(e) : e \in GraphEdges(store, S, commit_id) },
         is_working_copy |-> FirstWcCommit(v) = commit_id,
         is_immutable |-> commit_id \in {RootId},
         is_mine |-> commit.author = UserEmail,
         is_trunk |-> IF fail.kind = "trunk" THEN FALSE
                      ELSE commit_id \in Ancestors(store, Trunk(v)),
         is_divergent |-> change_id_counts(change_ids, i) > 1,
         divergent_index |-> index,
         bookmarks |-> get_bookmarks_for_commit(v, commit_id) ]

\* fetch_log(repo_path, limit, revset, preset) on the repository as loaded
fetch_log(store, v, limit, revset, preset, fail) ==
    LET text == RevsetStr(revset, preset)
        all == Iterate(store, v, text)
        nodes == graph_nodes(all, limit)
    IN IF fail.kind = "open" THEN Err("Failed to open repo")
       ELSE IF FirstWcCommit(v) = NoCommit THEN Err("No working copy")
       ELSE IF ParseFails(text) THEN Err("Failed to parse revset")
       ELSE IF ResolveFails(v, text) THEN Err("Failed to resolve revset")
       ELSE IF fail.kind = "evaluate" THEN Err("Failed to evaluate revset")
       ELSE IF fail.kind = "iterate" /\ fail.at <= Len(nodes)
       THEN Err("Graph iteration error")
       ELSE IF fail.kind = "root" THEN Err("Failed to evaluate root()")
       ELSE IF fail.kind = "read" /\ fail.at <= Len(nodes)
       THEN Err("Failed to get commit")
       ELSE IF \E i \in 1..Len(nodes) :
                 PrefixLen(store, v, nodes, i, fail)
                   > Len(format_change_id(store[nodes[i]].change_id))
       THEN Panic
       ELSE Ok([i \in 1..Len(nodes) |-> MakeRevision(store, v, Range(all), nodes, i, fail)])

(***************************************************************************)
(* resolve_revset                                                          *)
(***************************************************************************)
RevsetResult(change_ids, error) == [change_ids |-> change_ids, error |-> error]

\* variant: the ids collected before the failing element are kept
IterationErrorKeepingIds(collected) == RevsetResult(collected, Some("Iteration error"))

\* the arm taken when the iterator yields an error
IterationError(collected) == RevsetResult(<<>>, Some("Iteration error"))

\* resolve_revset(repo_path, revset_str) on the repository as loaded
resolve_revset(store, v, text, fail) ==
    LET all == Iterate(store, v, text)
        ids == [i \in 1..Len(all) |-> format_change_id(store[all[i]].change_id)]
    IN IF fail.kind = "open" THEN Err("Failed to open repo")
       ELSE IF ParseFails(text) THEN Ok(RevsetResult(<<>>, Some("Parse error")))
       ELSE IF ResolveFails(v, text) THEN Ok(RevsetResult(<<>>, Some("Resolve error")))
       ELSE IF fail.kind = "evaluate"
       THEN Ok(RevsetResult(<<>>, Some("Evaluation error")))
       ELSE IF fail.kind = "iterate" /\ fail.at <= Len(all)
       THEN Ok(IterationError(SubSeq(ids, 1, fail.at - 1)))
       ELSE IF fail.kind = "read" /\ fail.at <= Len(all)
       THEN Err("Failed to get commit")
       ELSE Ok(RevsetResult(ids, None))

(***************************************************************************)
(* The query commands.                                                     *)
(***************************************************************************)
RevsetInputs == {"all()", "@", "visible_heads() | root()", "((", "nosuch"}
PresetInputs == {"my_work", "active", "full_history", "recent"}

\* the command get_revisions, invoked once on the repository as it stands
get_revisions ==
    \E limit \in 0..MaxLimit,
       revset \in {None} \cup { Some(t) : t \in RevsetInputs },
       preset \in {None} \cup { Some(p) : p \in PresetInputs },
       fail \in Failures :
      /\ query = NoQuery
      /\ fail.kind = "index" => limit = MaxLimit
      /\ query' = [ kind |-> "fetch_log", limit |-> limit, revset |-> revset,
                    preset |-> preset, fail |-> fail,
                    revset_str |-> RevsetStr(revset, preset),
                    result |-> fetch_log(commits, view, limit, revset, preset, fail) ]
      /\ UNCHANGED <<commits, view, wc_tree, call, appVars>>

\* the command resolve_revset, invoked once on the repository as it stands
resolve_revset_command ==
    \E text \in RevsetInputs \cup {PresetMyWork, PresetActive, PresetFullHistory},
       fail \in Failures \ {Failure("root", 0), Failure("trunk", 0), Failure("index", 0)} :
      /\ query = NoQuery
      /\ query' = [ kind |-> "resolve_revset", revset |-> text, fail |-> fail,
                    result |-> resolve_revset(commits, view, text, fail) ]
      /\ UNCHANGED <<commits, view, wc_tree, call, appVars>>

\* the remote bookmarks of the repositories the queries run on
RemoteBookmarkSets ==
    { ("main" :> RemoteBookmark(2, TRUE, "origin")),
      <<>>,
      ("main" :> RemoteBookmark(2, TRUE, "origin"))
         @@ ("master" :> RemoteBookmark(3, TRUE, "origin")),
      ("trunk" :> RemoteBookmark(3, TRUE, "upstream")),
      ("main" :> RemoteBookmark(2, TRUE, "origin"))
         @@ ("wip" :> RemoteBookmark(4, FALSE, "origin")) }

\* the repositories the queries run on
InitLog ==
    /\ commits = InitialCommits
    /\ \E heads \in InitialHeads, wc \in {4, NoCommit}, other \in {3, NoCommit},
          remotes \in RemoteBookmarkSets :
         /\ view = [InitialView(heads, 4, other) EXCEPT
                      !.wc_commit_ids =
                         IF wc = NoCommit
                         THEN IF other = NoCommit THEN <<>> ELSE (OtherWorkspace :> other)
                         ELSE @,
                      !.remote_bookmarks = remotes]
         /\ wc_tree = InitialCommits[4].tree
    /\ call = [c \in Callers |-> IdleCall]
    /\ query = NoQuery
    /\ AppInit

NextLog == get_revisions \/ resolve_revset_command

SpecLog == InitLog /\ [][NextLog]_vars

(***************************************************************************)
(* format_change_id applied to pairs of change ids.                        *)
(***************************************************************************)
ByteValues == {0, 1, 16, 171, 255}

\* change ids that differ in their first, sixth and seventh byte
ChangeIdInputs ==
    { <<b1, 0, 0, 0, 0, b6, b7>> : b1 \in ByteValues, b6 \in ByteValues, b7 \in {0, 1} }

\* format_change_id is applied to two change ids
format_change_ids ==
    \E a \in ChangeIdInputs, b \in ChangeIdInputs :
      /\ query = NoQuery
      /\ query' = [ kind |-> "format_change_id", a |-> a, b |-> b,
                    text_a |-> format_change_id(a), text_b |-> format_change_id(b) ]
      /\ UNCHANGED <<commits, view, wc_tree, call, appVars>>

InitCodec ==
    /\ commits = InitialCommits
    /\ view = InitialView({3, 4, 5}, 4, 3)
    /\ wc_tree = InitialCommits[4].tree
    /\ call = [c \in Callers |-> IdleCall]
    /\ query = NoQuery
    /\ AppInit

NextCodec == format_change_ids

SpecCodec == InitCodec /\ [][NextCodec]_vars

(***************************************************************************)
(* compute_file_diff (repo/diff.rs).  A buffer is a sequence of bytes; the *)
(* bytes that matter are a letter, the line feed and a byte that is not    *)
(* valid UTF-8.                                                            *)
(***************************************************************************)
MaxBuf == 3

Bytes == {"a", "LF", "xFF"}

Buffers == SeqsUpTo(Bytes, MaxBuf)

\* String::from_utf8_lossy: an invalid byte becomes U+FFFD
from_utf8_lossy(content) ==
    [i \in 1..Len(content) |-> IF content[i] = "xFF" THEN "uFFFD" ELSE content[i]]

RECURSIVE tokenize_lines(_)
\* TextDiff::from_lines: the lines of a text, each with its line feed
tokenize_lines(text) ==
    IF text = <<>> THEN <<>>
    ELSE IF \E k \in 1..Len(text) : text[k] = "LF"
    THEN LET k == CHOOSE i \in 1..Len(text) :
                    text[i] = "LF" /\ \A j \in 1..(i - 1) : text[j] # "LF"
         IN <<SubSeq(text, 1, k)>> \o tokenize_lines(SubSeq(text, k + 1, Len(text)))
    ELSE <<text>>

Change(tag, value) == [tag |-> tag, value |-> value]

Equals(script) == Cardinality({ i \in 1..Len(script) : script[i].tag = "Equal" })

\* the scripts of a set that keep the most lines
Shortest(scripts) ==
    LET most == Max({ Equals(t) : t \in scripts })
    IN { s \in scripts : Equals(s) = most }

RECURSIVE ShortestScripts(_, _)
\* the shortest change sequences that turn the old lines into the new
\* lines; a run of changed lines is its deletions followed by its
\* insertions (DiffOp::Replace)
ShortestScripts(old, new) ==
    IF old = <<>> /\ new = <<>> THEN {<<>>}
    ELSE Shortest(
         (IF old # <<>> /\ new # <<>> /\ Head(old) = Head(new)
          THEN { <<Change("Equal", Head(old))>> \o s : s \in ShortestScripts(Tail(old), Tail(new)) }
          ELSE {})
         \cup (IF old # <<>>
               THEN { <<Change("Delete", Head(old))>> \o s : s \in ShortestScripts(Tail(old), new) }
               ELSE {})
         \cup (IF new # <<>>
               THEN { <<Change("Insert", Head(new))>> \o s :
                        s \in { t \in ShortestScripts(old, Tail(new)) :
                                  t = <<>> \/ t[1].tag # "Delete" } }
               ELSE {}))

\* the number of leading lines two texts have in common
common_prefix_len(old, new) ==
    Max({ k \in 0..Min(Len(old), Len(new)) : SubSeq(old, 1, k) = SubSeq(new, 1, k) })

\* the number of trailing lines two texts have in common
common_suffix_len(old, new) ==
    Max({ k \in 0..Min(Len(old), Len(new)) :
            SubSeq(old, Len(old) - k + 1, Len(old)) = SubSeq(new, Len(new) - k + 1, Len(new)) })

\* the diff algorithm: the common head and tail are kept, the middle is
\* turned by a shortest script
EditScripts(old, new) ==
    LET head == common_prefix_len(old, new)
        old_rest == SubSeq(old, head + 1, Len(old))
        new_rest == SubSeq(new, head + 1, Len(new))
        tail == common_suffix_len(old_rest, new_rest)
        keep(lines) == [i \in 1..Len(lines) |-> Change("Equal", lines[i])]
    IN { keep(SubSeq(old, 1, head)) \o middle
           \o keep(SubSeq(old_rest, Len(old_rest) - tail + 1, Len(old_rest))) :
         middle \in ShortestScripts(SubSeq(old_rest, 1, Len(old_rest) - tail),
                                    SubSeq(new_rest, 1, Len(new_rest) - tail)) }

\* variant: every old line is deleted and every new line inserted
replace_all_changes(old, new) ==
    { [i \in 1..(Len(old) + Len(new)) |->
         IF i <= Len(old) THEN Change("Delete", old[i])
         ELSE Change("Insert", new[i - Len(old)])] }

\* diff.iter_all_changes(): a shortest edit script; which of several the
\* library picks is left open
iter_all_changes(old, new) ==
    EditScripts(old, new)

\* change.to_string(): the line, with a line feed added when it has none
to_string(change) ==
    IF change.value[Len(change.value)] = "LF" THEN change.value
    ELSE change.value \o <<"LF">>

RECURSIVE trim_end_matches(_)
\* trim_end_matches('\n')
trim_end_matches(text) ==
    IF text # <<>> /\ text[Len(text)] = "LF"
    THEN trim_end_matches(SubSeq(text, 1, Len(text) - 1))
    ELSE text

DiffLine(line_type, content, old_line_number, new_line_number) ==
    [ line_type |-> line_type, content |-> content,
      old_line_number |-> old_line_number, new_line_number |-> new_line_number ]

\* variant: a context line advances the old counter only
next_line_nums_context_old_only(tag, old_line_num, new_line_num) ==
    CASE tag = "Delete" -> <<old_line_num + 1, new_line_num>>
      [] tag = "Insert" -> <<old_line_num, new_line_num + 1>>
      [] tag = "Equal" -> <<old_line_num + 1, new_line_num>>

\* old_line_num += 1 / new_line_num += 1 in the three arms
next_line_nums(tag, old_line_num, new_line_num) ==
    CASE tag = "Delete" -> <<old_line_num + 1, new_line_num>>
      [] tag = "Insert" -> <<old_line_num, new_line_num + 1>>
      [] tag = "Equal" -> <<old_line_num + 1, new_line_num + 1>>

\* the DiffLine built for one change
diff_line(change, old_line_num, new_line_num) ==
    LET content == trim_end_matches(to_string(change))
    IN CASE change.tag = "Delete" -> DiffLine("remove", content, Some(old_line_num), None)
         [] change.tag = "Insert" -> DiffLine("add", content, None, Some(new_line_num))
         [] change.tag = "Equal" ->
                DiffLine("context", content, Some(old_line_num), Some(new_line_num))

RECURSIVE diff_loop(_, _, _, _)
\* the loop over the changes: the lines pushed and the counters at its end
diff_loop(changes, lines, old_line_num, new_line_num) ==
    IF changes = <<>>
    THEN [lines |-> lines, old_line_num |-> old_line_num, new_line_num |-> new_line_num]
    ELSE LET nums == next_line_nums(Head(changes).tag, old_line_num, new_line_num)
         IN diff_loop(Tail(changes),
                      Append(lines, diff_line(Head(changes), old_line_num, new_line_num)),
                      nums[1], nums[2])

\* variant: the counts are the line counters themselves, one past the last line
compute_file_diff_counters(old_content, new_content, path, changes) ==
    LET end == diff_loop(changes, <<>>, 1, 1)
        hunk == [ old_start |-> 1, old_count |-> end.old_line_num,
                  new_start |-> 1, new_count |-> end.new_line_num,
                  lines |-> end.lines ]
    IN [path |-> path, hunks |-> <<hunk>>]

\* compute_file_diff(old_content, new_content, path) for the edit script the
\* library yields
compute_file_diff(old_content, new_content, path, changes) ==
    LET end == diff_loop(changes, <<>>, 1, 1)
        hunk == [ old_start |-> 1, old_count |-> end.old_line_num - 1,
                  new_start |-> 1, new_count |-> end.new_line_num - 1,
                  lines |-> end.lines ]
    IN [path |-> path, hunks |-> <<hunk>>]

\* the results compute_file_diff can return for two buffers
FileDiffs(old_content, new_content) ==
    { compute_file_diff(old_content, new_content, "f", changes) :
        changes \in iter_all_changes(tokenize_lines(from_utf8_lossy(old_content)),
                                     tokenize_lines(from_utf8_lossy(new_content))) }

\* compute_file_diff is applied to two buffers
compute_file_diffs ==
    \E old_content \in Buffers, new_content \in Buffers :
      \E file_diff \in FileDiffs(old_content, new_content) :
        /\ query = NoQuery
        /\ query' = [ kind |-> "diff", old |-> old_content, new |-> new_content,
                      result |-> file_diff ]
        /\ UNCHANGED <<commits, view, wc_tree, call, appVars>>

InitDiff ==
    /\ commits = InitialCommits
    /\ view = InitialView({3, 4, 5}, 4, 3)
    /\ wc_tree = InitialCommits[4].tree
    /\ call = [c \in Callers |-> IdleCall]
    /\ query = NoQuery
    /\ AppInit

NextDiff == compute_file_diffs

SpecDiff == InitDiff /\ [][NextDiff]_vars

(***************************************************************************)
(* get_revision_diff and get_revision_changes over the trees of a commit   *)
(* and of its parents.                                                     *)
(***************************************************************************)
\* the paths of a tree, in the order diff_stream yields them
PathOrder == <<"a", "b">>

\* TreeValue: a regular file with its content and executable bit, a symlink
File(content, executable) ==
    [kind |-> "File", content |-> content, executable |-> executable]
Symlink == [kind |-> "Symlink", content |-> "", executable |-> FALSE]

\* Merge<Option<TreeValue>>: the terms of a merged value, adds and removes in
\* turn; a resolved value has a single add
resolved(value) == <<value>>

\* the value of a path three sides disagree on: two adds around a removed base
Conflicted == <<Some(File("x", FALSE)), Some(File("y", FALSE)), Some(File("", FALSE))>>

\* Merge::adds(): the positive terms
adds(merge) == [i \in 1..((Len(merge) + 1) \div 2) |-> merge[2 * i - 1]]

\* Merge::removes(): the negative terms; a resolved value has none
removes(merge) == [i \in 1..(Len(merge) \div 2) |-> merge[2 * i]]

\* diff_values.before.removes().next().and_then(|v| v.as_ref())
before_value(merge) == IF removes(merge) = <<>> THEN None ELSE removes(merge)[1]

\* diff_values.after.adds().next().and_then(|v| v.as_ref())
after_value(merge) == IF adds(merge) = <<>> THEN None ELSE adds(merge)[1]

\* the merged values a path can have in a tree
MergedValues ==
    { resolved(None), resolved(Some(Symlink)), Conflicted }
    \cup { resolved(Some(File(content, FALSE))) : content \in {"", "x", "y"} }
    \cup { resolved(Some(File("x", TRUE))) }

\* the trees: a merged value for each path
MergedTrees == [Range(PathOrder) -> MergedValues]

\* MergedTree::diff_stream: the paths whose merged values differ, in path order
diff_stream(parent_tree, commit_tree) ==
    LET changed == SelectSeq(PathOrder, LAMBDA p : parent_tree[p] # commit_tree[p])
    IN [i \in 1..Len(changed) |->
          [path |-> changed[i], before |-> parent_tree[changed[i]],
           after |-> commit_tree[changed[i]]]]

\* get_file_content / get_parent_file_content(..).unwrap_or_default(): the
\* bytes of a resolved regular file, nothing for anything else
file_content(tree, path) ==
    LET merge == tree[path]
    IN IF Len(merge) = 1 /\ merge[1] # None /\ merge[1][1].kind = "File"
       THEN merge[1][1].content
       ELSE ""

IsFile(value) == value # None /\ value[1].kind = "File"

\* the arms of get_revision_diff's match that produce a file diff
diff_arm(before, after) ==
    \/ IsFile(before) /\ IsFile(after)
    \/ before = None /\ IsFile(after)
    \/ IsFile(before) /\ after = None

\* the file diff of a path: empty when the two contents have no differing line
file_diff(parent_tree, commit_tree, path) ==
    [path |-> path, old_content |-> file_content(parent_tree, path),
     new_content |-> file_content(commit_tree, path)]
file_diff_is_empty(diff) == diff.old_content = diff.new_content

\* the loop of get_revision_diff over the entries of the stream
revision_diff_loop(parent_tree, commit_tree, entries) ==
    LET kept == SelectSeq(entries, LAMBDA e :
                  /\ diff_arm(before_value(e.before), after_value(e.after))
                  /\ ~file_diff_is_empty(file_diff(parent_tree, commit_tree, e.path)))
    IN [i \in 1..Len(kept) |-> file_diff(parent_tree, commit_tree, kept[i].path)]

\* the status get_revision_changes gives an entry, "" for a skipped one
change_status(before, after) ==
    IF IsFile(before) /\ IsFile(after) THEN "modified"
    ELSE IF before = None /\ after # None THEN "added"
    ELSE IF before # None /\ after = None THEN "deleted"
    ELSE ""

\* the loop of get_revision_changes over the entries of the stream
revision_changes_loop(entries) ==
    LET kept == SelectSeq(entries, LAMBDA e :
                  change_status(before_value(e.before), after_value(e.after)) # "")
    IN [i \in 1..Len(kept) |->
          [path |-> kept[i].path,
           status |-> change_status(before_value(kept[i].before),
                                    after_value(kept[i].after))]]

\* what both commands do before their loop: open, get_commit, first parent
\* and the two trees; "" when nothing fails
revision_trees_error(parent_trees, fail) ==
    IF fail = "open" THEN "Failed to open repo"
    ELSE IF fail = "commit" THEN "Failed to get commit"
    ELSE IF parent_trees = <<>> THEN "Commit has no parent"
    ELSE IF fail = "parent" THEN "Failed to get parent"
    ELSE IF fail = "tree" THEN "Failed to get commit tree"
    ELSE ""

\* get_revision_diff(repo_path, change_id) for a commit with these trees
get_revision_diff(parent_trees, commit_tree, fail) ==
    IF revision_trees_error(parent_trees, fail) # ""
    THEN Err(revision_trees_error(parent_trees, fail))
    ELSE IF fail = "values" /\ diff_stream(parent_trees[1], commit_tree) # <<>>
    THEN Err("Failed to get diff values")
    ELSE Ok(revision_diff_loop(parent_trees[1], commit_tree,
                               diff_stream(parent_trees[1], commit_tree)))

\* get_revision_changes(repo_path, change_id) for a commit with these trees
get_revision_changes(parent_trees, commit_tree, fail) ==
    IF revision_trees_error(parent_trees, fail) # ""
    THEN Err(revision_trees_error(parent_trees, fail))
    ELSE IF fail = "values" /\ diff_stream(parent_trees[1], commit_tree) # <<>>
    THEN Err("Failed to get diff values")
    ELSE Ok(revision_changes_loop(diff_stream(parent_trees[1], commit_tree)))

\* the tree of a second parent
OtherParentTree == [p \in Range(PathOrder) |-> resolved(Some(File("y", FALSE)))]

\* the parents a commit can have: none (the root), one, or two
ParentTreeLists ==
    {<<>>} \cup { <<t>> : t \in MergedTrees } \cup { <<t, OtherParentTree>> : t \in MergedTrees }

RevisionFailures == {"none", "open", "commit", "parent", "tree", "values"}

\* both commands are asked about the same commit
get_revision_diff_and_changes ==
    \E parent_trees \in ParentTreeLists, commit_tree \in MergedTrees,
       fail \in RevisionFailures :
      /\ query = NoQuery
      /\ fail # "none" => commit_tree = OtherParentTree
      /\ query' = [ kind |-> "revision", parent_trees |-> parent_trees,
                    commit_tree |-> commit_tree, fail |-> fail,
                    diff |-> get_revision_diff(parent_trees, commit_tree, fail),
                    changes |-> get_revision_changes(parent_trees, commit_tree, fail) ]
      /\ UNCHANGED <<commits, view, wc_tree, call, appVars>>

InitRevision ==
    /\ commits = InitialCommits
    /\ view = InitialView({3, 4, 5}, 4, 3)
    /\ wc_tree = InitialCommits[4].tree
    /\ call = [c \in Callers |-> IdleCall]
    /\ query = NoQuery
    /\ AppInit

NextRevision == get_revision_diff_and_changes

SpecRevision == InitRevision /\ [][NextRevision]_vars

(***************************************************************************)
(* format_timestamp (repo/log.rs).  A time is a number of milliseconds,    *)
(* kept as whole seconds and the milliseconds beyond them.                 *)
(***************************************************************************)
Millis(secs, ms) == [secs |-> secs, ms |-> ms]

\* the text format_timestamp compares the encoded change id with
RootText == <<"z", "z", "z", "z", "z", "z", "z", "z">>

\* (now - timestamp).abs() / 1000
diff_seconds(now, timestamp) ==
    LET ds == now.secs - timestamp.secs
        dr == now.ms - timestamp.ms
        s == IF ds > 0 \/ (ds = 0 /\ dr >= 0) THEN ds ELSE 0 - ds
        r == IF ds > 0 \/ (ds = 0 /\ dr >= 0) THEN dr ELSE 0 - dr
    IN IF r >= 0 THEN s ELSE s - 1

\* the "N <unit> ago" text of a distance in seconds
relative_time(seconds) ==
    IF seconds < 60 THEN Decimal(seconds) \o <<" seconds ago">>
    ELSE IF seconds < 3600 THEN Decimal(seconds \div 60) \o <<" minutes ago">>
    ELSE IF seconds < 86400 THEN Decimal(seconds \div 3600) \o <<" hours ago">>
    ELSE IF seconds < 604800 THEN Decimal(seconds \div 86400) \o <<" days ago">>
    ELSE IF seconds < 2592000 THEN Decimal(seconds \div 604800) \o <<" weeks ago">>
    ELSE IF seconds < 31536000 THEN Decimal(seconds \div 2592000) \o <<" months ago">>
    ELSE Decimal(seconds \div 31536000) \o <<" years ago">>

\* format_timestamp(timestamp, change_id) when the clock reads `now`
format_timestamp(timestamp, change_id, now) ==
    IF format_change_id(change_id) = RootText
    THEN <<"root">>
    ELSE relative_time(diff_seconds(now, timestamp))

\* the readings of the clock
Clock == { Millis(1700000000, ms) : ms \in {0, 500} }

\* committer timestamps: the epoch of the root commit, and times around the
\* unit boundaries before the clock's reading, one after it
CommitterTimes ==
    {Millis(0, 0)} \cup
    { Millis(1700000000 - back, ms) :
        back \in {0 - 120, 0, 59, 60, 3599, 3600, 86400, 604800, 2592000, 31536000},
        ms \in {0, 999} }

\* format_timestamp is applied to the committer timestamp of a commit
format_timestamps ==
    \E id \in 1..Len(InitialCommits), timestamp \in CommitterTimes, now \in Clock :
      /\ query = NoQuery
      /\ id = RootId => timestamp = Millis(0, 0)
      /\ query' = [ kind |-> "format_timestamp", commit_id |-> id,
                    timestamp |-> timestamp, now |-> now,
                    result |-> format_timestamp(timestamp, commits[id].change_id, now) ]
      /\ UNCHANGED <<commits, view, wc_tree, call, appVars>>

InitTimestamp ==
    /\ commits = InitialCommits
    /\ view = InitialView({3, 4, 5}, 4, 3)
    /\ wc_tree = InitialCommits[4].tree
    /\ call = [c \in Callers |-> IdleCall]
    /\ query = NoQuery
    /\ AppInit

NextTimestamp == format_timestamps

SpecTimestamp == InitTimestamp /\ [][NextTimestamp]_vars

(***************************************************************************)
(* The watcher registry (watcher.rs).  The mutex around the map makes each *)
(* call one step.                                                          *)
(***************************************************************************)
MaxDebouncers == 3   \* debouncers created in one run

\* the outcome of a watch call: its result, the registry it leaves and
\* whether a debouncer was created on the way
WatchOutcome(result, registry, created) ==
    [result |-> result, registry |-> registry, created |-> created]

\* variant: a watched path gets a new debouncer in place of the one it has
watch_replacing(registry, dirs, created_so_far, path, created_ok, watch_ok) ==
    IF path \notin dirs /\ registry[path] = None
    THEN WatchOutcome("Not a jj repository", registry, FALSE)
    ELSE IF ~created_ok THEN WatchOutcome("Failed to create watcher", registry, FALSE)
    ELSE IF ~watch_ok THEN WatchOutcome("Failed to watch directory", registry, TRUE)
    ELSE WatchOutcome("ok", [registry EXCEPT ![path] = Some(created_so_far + 1)], TRUE)

\* WatcherManager::watch(app, repo_path)
watch(registry, dirs, created_so_far, path, created_ok, watch_ok) ==
    IF registry[path] # None THEN WatchOutcome("ok", registry, FALSE)
    ELSE IF path \notin dirs THEN WatchOutcome("Not a jj repository", registry, FALSE)
    ELSE IF ~created_ok THEN WatchOutcome("Failed to create watcher", registry, FALSE)
    ELSE IF ~watch_ok THEN WatchOutcome("Failed to watch directory", registry, TRUE)
    ELSE WatchOutcome("ok", [registry EXCEPT ![path] = Some(created_so_far + 1)], TRUE)

\* WatcherManager::unwatch(repo_path)
unwatch(registry, path) == [registry EXCEPT ![path] = None]

\* per path, the kind of the last call that changed the registry
LastChange ==
    IF last.op \in {"watch", "unwatch"}
    THEN last.changed
    ELSE [path \in WatchPaths |-> "none"]

\* the command watch_repository
watch_repository ==
    \E path \in WatchPaths, created_ok \in BOOLEAN, watch_ok \in BOOLEAN :
      LET outcome == watch(watchers, repo_dirs, debouncers, path, created_ok, watch_ok)
      IN /\ outcome.created => debouncers < MaxDebouncers
         /\ watchers' = outcome.registry
         /\ debouncers' = IF outcome.created THEN debouncers + 1 ELSE debouncers
         /\ last' = [ op |-> "watch", path |-> path, result |-> outcome.result,
                      before |-> watchers, had_repo_dir |-> path \in repo_dirs,
                      changed |-> IF outcome.registry # watchers
                                  THEN [LastChange EXCEPT ![path] = "watch"]
                                  ELSE LastChange ]
         /\ UNCHANGED <<repoVars, repo_dirs, layout, db, tasks>>

\* the command unwatch_repository
unwatch_repository ==
    \E path \in WatchPaths :
      /\ watchers' = unwatch(watchers, path)
      /\ last' = [ op |-> "unwatch", path |-> path, result |-> "ok",
                   before |-> watchers, had_repo_dir |-> path \in repo_dirs,
                   changed |-> IF unwatch(watchers, path) # watchers
                               THEN [LastChange EXCEPT ![path] = "unwatch"]
                               ELSE LastChange ]
      /\ UNCHANGED <<repoVars, repo_dirs, debouncers, layout, db, tasks>>

\* a repository is created under a path, or its .jj/repo directory goes away
change_repo_dir ==
    \E path \in WatchPaths :
      /\ repo_dirs' = IF path \in repo_dirs THEN repo_dirs \ {path}
                      ELSE repo_dirs \cup {path}
      /\ UNCHANGED <<repoVars, watchers, debouncers, layout, db, tasks, last>>

InitWatcher ==
    /\ commits = InitialCommits
    /\ view = InitialView({3, 4, 5}, 4, 3)
    /\ wc_tree = InitialCommits[4].tree
    /\ call = [c \in Callers |-> IdleCall]
    /\ query = NoQuery
    /\ AppInit

NextWatcher == watch_repository \/ unwatch_repository \/ change_repo_dir

SpecWatcher == InitWatcher /\ [][NextWatcher]_vars

(***************************************************************************)
(* The layout storage (storage.rs).  The in-memory AppLayout sits behind   *)
(* an async mutex that update_layout holds from its first line to its      *)
(* return, and delete_project from after its DELETE to its return.         *)
(***************************************************************************)
ProjectIds == {"p1", "p2"}
SelectedChangeIds == {"k"}

AppLayout(active_project_id, selected_change_id, sidebar_width) ==
    [ active_project_id |-> active_project_id,
      selected_change_id |-> selected_change_id,
      sidebar_width |-> sidebar_width ]

\* the layouts the front end sends to update_layout
LayoutUpdates ==
    { AppLayout(active, selected, width) :
        active \in {None} \cup { Some(id) : id \in ProjectIds },
        selected \in {None} \cup { Some(text) : text \in SelectedChangeIds },
        width \in {0, 30} }

\* serde_json::to_string(&layout): the members in declaration order
to_json(value) ==
    << "active_project_id", value.active_project_id,
       "selected_change_id", value.selected_change_id,
       "sidebar_width", value.sidebar_width >>

\* serde_json::from_str::<AppLayout>(&value)
from_json(text) == AppLayout(text[2], text[4], text[6])

\* load_layout(pool).unwrap_or_default(): the row 'main', if there is one
load_layout(database) ==
    IF database.layout = None THEN DefaultLayout ELSE from_json(database.layout[1])

\* INSERT OR REPLACE INTO layout (key, value) VALUES ('main', ?)
store_layout(database, value) == [database EXCEPT !.layout = Some(to_json(value))]

\* get_layout(): a copy of the layout in memory
get_layout == layout

\* variant: the selection is replaced only when the update carries one
merge_layout_keeping_selection(current, updates) ==
    [ active_project_id |->
        IF updates.active_project_id # None
        THEN updates.active_project_id ELSE current.active_project_id,
      selected_change_id |->
        IF updates.selected_change_id # None
        THEN updates.selected_change_id ELSE current.selected_change_id,
      sidebar_width |->
        IF updates.sidebar_width # 0
        THEN updates.sidebar_width ELSE current.sidebar_width ]

\* the assignments update_layout makes to the layout in memory
merge_layout(current, updates) ==
    LET has_active_project_update == updates.active_project_id # None
    IN [ active_project_id |->
           IF has_active_project_update
           THEN updates.active_project_id ELSE current.active_project_id,
         selected_change_id |->
           IF updates.selected_change_id # None \/ has_active_project_update
           THEN updates.selected_change_id ELSE current.selected_change_id,
         sidebar_width |->
           IF updates.sidebar_width # 0
           THEN updates.sidebar_width ELSE current.sidebar_width ]

\* variant: only the active project is cleared
clear_active_only(current, id) ==
    IF current.active_project_id = Some(id)
    THEN [current EXCEPT !.active_project_id = None]
    ELSE current

\* the assignments delete_project makes to the layout in memory
clear_deleted_project(current, id) ==
    IF current.active_project_id = Some(id)
    THEN [current EXCEPT !.active_project_id = None, !.selected_change_id = None]
    ELSE current

\* Storage::update_layout(updates): merge under the lock, then persist
update_layout ==
    \E updates \in LayoutUpdates, persisted \in BOOLEAN :
      LET merged == merge_layout(layout, updates)
      IN /\ layout' = merged
         /\ db' = IF persisted THEN store_layout(db, merged) ELSE db
         /\ last' = [ op |-> "update_layout", updates |-> updates,
                      result |-> IF persisted THEN "ok" ELSE "Failed to update layout",
                      before |-> layout, after |-> merged ]
         /\ UNCHANGED <<repoVars, watchers, repo_dirs, debouncers, tasks>>

\* Storage::upsert_project(project)
upsert_project ==
    \E id \in ProjectIds :
      /\ id \notin db.projects
      /\ db' = [db EXCEPT !.projects = @ \cup {id}]
      /\ UNCHANGED <<repoVars, watchers, repo_dirs, debouncers, layout, tasks, last>>

\* Storage::delete_project(id), first half: DELETE FROM projects WHERE id = ?
delete_project_row(t) ==
    \E id \in ProjectIds, deleted \in BOOLEAN :
      /\ tasks[t].pc = "idle"
      /\ IF deleted
         THEN /\ db' = [db EXCEPT !.projects = @ \ {id}]
              /\ tasks' = [tasks EXCEPT ![t] = [pc |-> "lock", id |-> id,
                                                active_at_delete |-> layout.active_project_id]]
              /\ UNCHANGED last
         ELSE /\ last' = [ op |-> "delete_project", id |-> id,
                           result |-> "Failed to remove project",
                           before |-> layout, after |-> layout,
                           active_at_delete |-> layout.active_project_id ]
              /\ UNCHANGED <<db, tasks>>
      /\ UNCHANGED <<repoVars, watchers, repo_dirs, debouncers, layout>>

\* Storage::delete_project(id), second half: under the lock, the layout is
\* cleared and persisted when the deleted project was the active one
delete_project_layout(t) ==
    \E persisted \in BOOLEAN :
      LET id == tasks[t].id
          cleared == clear_deleted_project(layout, id)
          was_active == layout.active_project_id = Some(id)
      IN /\ tasks[t].pc = "lock"
         /\ was_active \/ persisted
         /\ layout' = cleared
         /\ db' = IF was_active /\ persisted THEN store_layout(db, cleared) ELSE db
         /\ tasks' = [tasks EXCEPT ![t] = IdleTask]
         /\ last' = [ op |-> "delete_project", id |-> id,
                      result |-> IF persisted THEN "ok" ELSE "Failed to remove project",
                      before |-> layout, after |-> cleared,
                      active_at_delete |-> tasks[t].active_at_delete ]
         /\ UNCHANGED <<repoVars, watchers, repo_dirs, debouncers>>

\* the application is started again: Storage::new loads the stored layout
restart ==
    /\ \A t \in Tasks : tasks[t].pc = "idle"
    /\ last # NoCall
    /\ layout' = load_layout(db)
    /\ last' = NoCall
    /\ UNCHANGED <<repoVars, watchers, repo_dirs, debouncers, db, tasks>>

InitStorage ==
    /\ commits = InitialCommits
    /\ view = InitialView({3, 4, 5}, 4, 3)
    /\ wc_tree = InitialCommits[4].tree
    /\ call = [c \in Callers |-> IdleCall]
    /\ query = NoQuery
    /\ AppInit

NextStorage ==
    \/ update_layout
    \/ upsert_project
    \/ \E t \in Tasks : delete_project_row(t)
    \/ \E t \in Tasks : delete_project_layout(t)
    \/ restart

SpecStorage == InitStorage /\ [][NextStorage]_vars

(***************************************************************************)
(* Properties of the mutation commands.                                    *)
(***************************************************************************)
Finished(c, op) == call[c].pc = "done" /\ call[c].op = op

\* the reference matches exactly one commit of the view the call started from
OneCommit(me, ref) == Cardinality(MatchingCommits(commits, me.pre, ref)) = 1

\* the reference does not name one change of that view
NotOneChange(me, ref) ==
    \/ ~ValidReverseHex(ref)
    \/ Cardinality(MatchingChanges(commits, me.pre, ref)) # 1

TheCommit(me, ref) == CHOOSE id \in MatchingCommits(commits, me.pre, ref) : TRUE

\* C1: a successful new_revision on a non-empty list of references that each
\* resolve to exactly one commit writes one new commit whose parents are the
\* resolved commits in the given order and whose tree is the first parent's
\* tree, and on return the View's working-copy pointer of the workspace is
\* the new commit.
C1_NewRevisionCommit ==
    \A c \in Callers :
      LET me == call[c] IN
        ( /\ Finished(c, "new") /\ me.result = "ok"
          /\ me.refs # <<>>
          /\ \A i \in 1..Len(me.refs) : OneCommit(me, me.refs[i]) )
        => /\ Len(commits) = me.pre_len + 1
           /\ me.commit = Len(commits)
           /\ commits[me.commit].parents =
                [i \in 1..Len(me.refs) |-> TheCommit(me, me.refs[i])]
           /\ commits[me.commit].tree = commits[TheCommit(me, me.refs[1])].tree
           /\ view.wc_commit_ids[WorkspaceName] = me.commit

\* new_revision([zyz, k]) has returned Ok: two parents with different trees
C1_Witness ==
    \E c \in Callers :
      /\ Finished(c, "new") /\ call[c].result = "ok"
      /\ call[c].refs = <<RefA, RefC>>
      /\ commits[call[c].commit].parents = <<2, 3>>

\* C2: after a successful edit_revision(X) the working-copy pointer of the
\* workspace is the commit X resolves to and nothing else in the View has
\* changed; no commit was created.
C2_EditRevisionFrame ==
    \A c \in Callers :
      LET me == call[c] IN
        (Finished(c, "edit") /\ me.result = "ok")
        => /\ ~NotOneChange(me, me.refs[1])
           /\ me.commit \in MatchingCommits(commits, me.pre, me.refs[1])
           /\ view.wc_commit_ids[WorkspaceName] = me.commit
           /\ view.wc_commit_ids[OtherWorkspace] = me.pre.wc_commit_ids[OtherWorkspace]
           /\ view = [me.pre EXCEPT !.wc_commit_ids[WorkspaceName] = me.commit]
           /\ Len(commits) = me.pre_len

\* edit_revision(k) has returned Ok and moved the pointer from 4 to 3
C2_Witness ==
    \E c \in Callers :
      /\ Finished(c, "edit") /\ call[c].result = "ok"
      /\ call[c].refs = <<RefC>>
      /\ call[c].pre.wc_commit_ids[WorkspaceName] = 4
      /\ view.wc_commit_ids[WorkspaceName] = 3

\* C3: a mutation command given a reference that does not resolve (or
\* new_revision given an empty list, or a list in which a later reference
\* does not resolve) returns an error, leaves the View and the store as they
\* were before the call and performs no checkout.
C3_UnresolvedLeavesView ==
    \A c \in Callers :
      LET me == call[c] IN
        ( /\ me.pc # "idle"
          /\ \/ me.refs = <<>>
             \/ \E i \in 1..Len(me.refs) : NotOneChange(me, me.refs[i]) )
        => /\ view = me.pre
           /\ Len(commits) = me.pre_len
           /\ me.check_out = "none" /\ ~me.committed
           /\ wc_tree = me.pre_tree
           /\ me.pc = "done" => me.result \notin {"ok", "none"}

\* new_revision([k, q]) has returned: k resolved, q matched no change
C3_Witness ==
    \E c \in Callers :
      /\ Finished(c, "new")
      /\ call[c].refs = <<RefC, RefNone>>
      /\ call[c].parent_commits = <<3>>
      /\ call[c].result = "Change ID not found"

\* C4: when the transaction commit fails the command returns an error, the
\* View is unchanged and no checkout runs; a checkout is always preceded by
\* the successful commit of the same command's transaction.
C4_CommitBeforeCheckout ==
    \A c \in Callers :
      LET me == call[c] IN
        /\ (me.pc = "check_out" \/ me.check_out # "none") => me.committed
        /\ (me.pc = "done" /\ me.result = "Failed to commit transaction")
           => /\ view = me.pre
              /\ me.check_out = "none"
              /\ wc_tree = me.pre_tree

\* new_revision wrote its commit and the transaction commit then failed
C4_Witness ==
    \E c \in Callers :
      /\ Finished(c, "new")
      /\ call[c].result = "Failed to commit transaction"
      /\ Len(commits) = call[c].pre_len + 1

\* C5: when the checkout fails after the transaction has committed, the View
\* keeps the new working-copy pointer, the working directory keeps its
\* previous contents and the command returns an error.
C5_CheckoutFailureSurfaced ==
    \A c \in Callers :
      LET me == call[c] IN
        (me.pc = "done" /\ me.check_out = "failed")
        => /\ me.result \notin {"ok", "none"}
           /\ me.committed
           /\ view.wc_commit_ids[WorkspaceName] = me.commit
           /\ wc_tree = me.pre_tree

\* edit_revision moved the pointer and its checkout failed: the directory
\* still holds the old tree
C5_Witness ==
    \E c \in Callers :
      /\ Finished(c, "edit") /\ call[c].check_out = "failed"
      /\ view.wc_commit_ids[WorkspaceName] # call[c].pre.wc_commit_ids[WorkspaceName]
      /\ wc_tree # commits[view.wc_commit_ids[WorkspaceName]].tree

\* a caller holds an open transaction
TxOpen(c) == call[c].pc \in {"resolve", "commit"}

\* a caller is between loading the View and the end of its checkout
Mutating(c) == call[c].pc \in {"resolve", "commit", "check_out"}

\* C6: mutations on one repository are serialized: no two transactions are
\* open at the same time, and a mutation loads the View only after the
\* previous one has committed and finished its checkout.
C6_MutationsSerialized ==
    \A c1, c2 \in Callers : (c1 # c2 /\ TxOpen(c1)) => ~Mutating(c2)

(***************************************************************************)
(* Properties of the queries.                                              *)
(***************************************************************************)
Resolved == query.kind = "resolve_revset"
Fetched == query.kind = "fetch_log"

\* the encoded change ids of a sequence of commits
EncodedIds(ids) == [i \in 1..Len(ids) |-> format_change_id(commits[ids[i]].change_id)]

\* a stage of the query fails: parsing, symbol resolution, evaluation or the
\* iteration within the commits the revset holds
StageFails(text, fail) ==
    \/ ParseFails(text)
    \/ ResolveFails(view, text)
    \/ fail.kind = "evaluate"
    \/ fail.kind = "iterate" /\ fail.at <= Cardinality(Evaluate(commits, view, text))

\* C7: resolve_revset reports a failure of parsing, symbol resolution,
\* evaluation or iteration as a success value with a non-null error and no
\* change ids, and when nothing fails it returns a null error and one encoded
\* change id per commit in evaluation order.
C7_FailuresAsData ==
    Resolved =>
      LET r == query.result
          text == query.revset
          fail == query.fail
      IN /\ (fail.kind # "open" /\ StageFails(text, fail))
              => /\ r.status = "ok"
                 /\ r.value.error # None
                 /\ r.value.change_ids = <<>>
         /\ (fail.kind = "none" /\ ~StageFails(text, fail))
              => /\ r.status = "ok"
                 /\ r.value.error = None
                 /\ r.value.change_ids =
                      EncodedIds(SortDesc(Evaluate(commits, view, text)))

\* resolve_revset("all()") whose iteration fails at its second element
C7_Witness ==
    /\ Resolved
    /\ query.revset = "all()"
    /\ query.fail = Failure("iterate", 2)
    /\ query.result.status = "ok"
    /\ query.result.value.error = Some("Iteration error")

\* the query text the interface promises for a revset and a preset
PromisedText(revset, preset) ==
    IF revset # None THEN revset[1]
    ELSE IF preset = Some("my_work") THEN "mine() | present(@)"
    ELSE IF preset = Some("full_history") THEN "ancestors(visible_heads())"
    ELSE "present(@) | ancestors(immutable_heads().., 2) | present(trunk())"

\* C8: fetch_log uses a non-null revset verbatim whatever the preset;
\* otherwise "my_work" selects "mine() | present(@)", "full_history" selects
\* "ancestors(visible_heads())" and "active", an unknown name or no preset
\* select "present(@) | ancestors(immutable_heads().., 2) | present(trunk())";
\* the revisions returned are those of that text.
C8_QueryTextChoice ==
    Fetched =>
      /\ query.revset_str = PromisedText(query.revset, query.preset)
      /\ query.result.status = "ok"
           => { query.result.value[i].commit_id : i \in 1..Len(query.result.value) }
                \subseteq Evaluate(commits, view, PromisedText(query.revset, query.preset))

\* fetch_log(revset "@", preset "my_work") has returned the working copy only
C8_Witness ==
    /\ Fetched
    /\ query.revset = Some("@") /\ query.preset = Some("my_work")
    /\ query.result.status = "ok"
    /\ Len(query.result.value) = 1
    /\ query.result.value[1].commit_id = 4

\* C9: fetch_log returns at most limit revisions, and the commits returned
\* are the first limit elements, in order, of what the iteration of the
\* evaluated revset yields without a limit; limit 0 yields the empty list.
C9_LimitIsPrefix ==
    (Fetched /\ query.result.status = "ok") =>
      LET unlimited == SortDesc(Evaluate(commits, view, query.revset_str))
          revisions == query.result.value
      IN /\ Len(revisions) <= query.limit
         /\ Len(revisions) = Min(query.limit, Len(unlimited))
         /\ \A i \in 1..Len(revisions) : revisions[i].commit_id = unlimited[i]
         /\ query.limit = 0 => revisions = <<>>

\* fetch_log with limit 2 on a revset of more than two commits
C9_Witness ==
    /\ Fetched
    /\ query.limit = 2
    /\ query.result.status = "ok"
    /\ Len(query.result.value) = 2
    /\ Cardinality(Evaluate(commits, view, query.revset_str)) > 2

\* the positions of the list that carry the change id of position i
SameChange(revisions, i) ==
    { j \in 1..Len(revisions) : revisions[j].change_id = revisions[i].change_id }

\* a non-empty prefix of the change id the revision carries
IsShortPrefix(text, rev) ==
    \E n \in 1..Len(rev.change_id) : text = SubSeq(rev.change_id, 1, n)

\* C10: in the list fetch_log returns, the revisions of a change id carried
\* by k > 1 of them are all flagged is_divergent, carry the indices 0..k-1 in
\* result order and a short id "{prefix}/{index}"; the revision of a change
\* id carried once is not flagged, has no index and a bare prefix.
C10_Divergence ==
    (Fetched /\ query.result.status = "ok") =>
      LET revisions == query.result.value IN
        \A i \in 1..Len(revisions) :
          LET rev == revisions[i]
              earlier == { j \in SameChange(revisions, i) : j < i }
          IN IF Cardinality(SameChange(revisions, i)) > 1
             THEN /\ rev.is_divergent
                  /\ rev.divergent_index = Cardinality(earlier)
                  /\ \E text \in { SubSeq(rev.change_id, 1, n) : n \in 1..Len(rev.change_id) } :
                       rev.change_id_short
                         = text \o <<"/">> \o Decimal(Cardinality(earlier))
             ELSE /\ ~rev.is_divergent
                  /\ rev.divergent_index = NoIndex
                  /\ IsShortPrefix(rev.change_id_short, rev)

\* three returned commits share one change id and carry /0, /1, /2
C10_Witness ==
    /\ Fetched
    /\ query.result.status = "ok"
    /\ Len(query.result.value) = 3
    /\ \A i \in 1..3 :
         /\ commits[query.result.value[i].commit_id].change_id = ChangeB
         /\ query.result.value[i].is_divergent
         /\ query.result.value[i].divergent_index = i - 1

\* the revisions of a fetch_log call that returned a list
Returned == IF Fetched /\ query.result.status = "ok" THEN query.result.value ELSE <<>>

\* the commits the repository protects from rewriting: the ancestors of the
\* root and of the immutable heads
ImmutableCommits == Ancestors(commits, {RootId} \cup ImmutableHeads(view))

\* C11: fetch_log sets is_immutable exactly for the commits that are
\* ancestors of the root or of the immutable heads (trunk, tags, untracked
\* remote bookmarks).
C11_ImmutableFlag ==
    \A i \in 1..Len(Returned) :
      Returned[i].is_immutable <=> Returned[i].commit_id \in ImmutableCommits

\* the commit trunk() stands for: the latest of origin's main, master and
\* trunk bookmarks, the root when origin has none of them
TrunkCommit ==
    LET named == { n \in DOMAIN view.remote_bookmarks :
                     /\ n \in {"main", "master", "trunk"}
                     /\ view.remote_bookmarks[n].remote = "origin" }
        targets == { view.remote_bookmarks[n].target : n \in named }
    IN IF targets = {} THEN RootId
       ELSE CHOOSE t \in targets : \A u \in targets : u <= t

\* C12: when ::trunk() evaluates, fetch_log sets is_trunk exactly for the
\* returned commits that are trunk() or one of its ancestors.
C12_TrunkFlag ==
    (Fetched /\ query.fail.kind # "trunk") =>
      \A i \in 1..Len(Returned) :
        Returned[i].is_trunk
          <=> Returned[i].commit_id \in Ancestors(commits, {TrunkCommit})

\* origin has main at 2 and the later master at 3: commit 3 is returned as
\* trunk, commit 4 as not trunk
C12_Witness ==
    /\ "master" \in DOMAIN view.remote_bookmarks
    /\ \E i, j \in 1..Len(Returned) :
         /\ Returned[i].commit_id = 3 /\ Returned[i].is_trunk
         /\ Returned[j].commit_id = 4 /\ ~Returned[j].is_trunk

\* C13: fetch_log flags is_working_copy on exactly the returned commit that
\* is the recorded working-copy commit of the opened workspace, the pointer
\* new_revision and edit_revision set.
C13_WorkingCopyFlag ==
    \A i \in 1..Len(Returned) :
      Returned[i].is_working_copy
        <=> /\ WorkspaceName \in DOMAIN view.wc_commit_ids
            /\ Returned[i].commit_id = view.wc_commit_ids[WorkspaceName]

\* what another fetch_log call on the same View returns when nothing fails
OtherCall(limit, revset, preset) ==
    fetch_log(commits, view, limit, revset, preset, NoFailure)

\* C14: on an unchanged View, a commit returned by two fetch_log calls with
\* different revsets, presets or limits has the same change_id_short in both.
C14_ShortIdStable ==
    (Fetched /\ query.fail = NoFailure) =>
      \A limit \in 0..MaxLimit,
         revset \in {None} \cup { Some(t) : t \in RevsetInputs },
         preset \in {None} \cup { Some(p) : p \in PresetInputs } :
        LET other == OtherCall(limit, revset, preset) IN
          other.status = "ok" =>
            \A i \in 1..Len(Returned), j \in 1..Len(other.value) :
              Returned[i].commit_id = other.value[j].commit_id
                => Returned[i].change_id_short = other.value[j].change_id_short

\* the part of a short id before its "/index" suffix
PrefixOf(short) == SelectSeq(short, LAMBDA ch : ch \in Range(Alphabet))

\* the reverse-hex texts of the repository's change ids other than that of
\* commit id
OtherChangeIds(id) ==
    { ReverseHex(commits[c].change_id) : c \in Visible(commits, view) }
      \ { ReverseHex(commits[id].change_id) }

\* some other change id of the repository starts with the text
Shared(text, id) == \E other \in OtherChangeIds(id) : IsPrefix(text, other)

Formatted == query.kind = "format_change_id"

\* the character 'z' minus v
ZMinus(v) ==
    <<"z", "y", "x", "w", "v", "u", "t", "s", "r", "q", "p", "o", "n", "m", "l", "k">>[v + 1]

KToZ == {"k", "l", "m", "n", "o", "p", "q", "r", "s", "t", "u", "v", "w", "x", "y", "z"}

\* the text is the encoding of the first six bytes of the id: twelve
\* characters, per byte the high nibble before the low one
EncodesSixBytes(text, id) ==
    /\ Len(text) = 12
    /\ \A k \in 1..6 :
         /\ text[2 * k - 1] = ZMinus(id[k] \div 16)
         /\ text[2 * k] = ZMinus(id[k] % 16)
    /\ \A i \in 1..Len(text) : text[i] \in KToZ

\* C16: format_change_id encodes the first 6 bytes of a change id as 12
\* characters, high nibble first, nibble v as 'z' minus v, so every character
\* lies in 'k'..'z' and two ids get the same text exactly when their first 6
\* bytes are equal.
C16_FormatChangeId ==
    Formatted =>
      /\ EncodesSixBytes(query.text_a, query.a)
      /\ EncodesSixBytes(query.text_b, query.b)
      /\ (query.text_a = query.text_b)
           <=> (\A k \in 1..6 : query.a[k] = query.b[k])

\* two different change ids with equal first six bytes get one text, and a
\* byte 0xab is encoded as "po"
C16_Witness ==
    /\ Formatted
    /\ query.a = <<171, 0, 0, 0, 0, 0, 0>> /\ query.b = <<171, 0, 0, 0, 0, 0, 1>>
    /\ query.text_a = query.text_b
    /\ SubSeq(query.text_a, 1, 2) = <<"p", "o">>

\* the commits the text of the call selects
QuerySet == Evaluate(commits, view, query.revset_str)

ProperAncestors(id) == Ancestors(commits, {id}) \ {id}

EdgeTargets(rev, type) ==
    { e.parent_id : e \in { x \in rev.parent_edges : x.edge_type = type } }

Diffed == query.kind = "diff"

\* the lines of the hunks of the returned diff
HunkLines == IF Diffed THEN query.result.hunks[1].lines ELSE <<>>

\* the lines that carry an old number, the lines that carry a new number
OldSide == SelectSeq(HunkLines, LAMBDA l : l.old_line_number # None)
NewSide == SelectSeq(HunkLines, LAMBDA l : l.new_line_number # None)

\* C17: in the hunk of compute_file_diff a context line carries an old and a
\* new line number, a remove line only an old one, an add line only a new
\* one, and on each side the numbers are 1, 2, 3, ... in line order.
C17_LineNumbers ==
    Diffed =>
      /\ \A i \in 1..Len(HunkLines) :
           LET l == HunkLines[i] IN
             CASE l.line_type = "context" ->
                    l.old_line_number # None /\ l.new_line_number # None
               [] l.line_type = "remove" ->
                    l.old_line_number # None /\ l.new_line_number = None
               [] l.line_type = "add" ->
                    l.old_line_number = None /\ l.new_line_number # None
               [] OTHER -> FALSE
      /\ \A k \in 1..Len(OldSide) : OldSide[k].old_line_number = Some(k)
      /\ \A k \in 1..Len(NewSide) : NewSide[k].new_line_number = Some(k)

\* a diff with a context line followed by a removed and an added line, the
\* added one numbered 2 on the new side
C17_Witness ==
    /\ Diffed
    /\ Len(HunkLines) = 3
    /\ HunkLines[1].line_type = "context"
    /\ HunkLines[2].line_type = "remove"
    /\ HunkLines[3].line_type = "add" /\ HunkLines[3].new_line_number = Some(2)

\* the number of lines of a buffer: its line feeds, and one more when its
\* last line has none
LineCount(content) ==
    Cardinality({ i \in 1..Len(content) : content[i] = "LF" })
      + (IF content # <<>> /\ content[Len(content)] # "LF" THEN 1 ELSE 0)

C19_RoundTrip ==
    Diffed =>
      \A other \in Buffers :
        query.result \in FileDiffs(query.old, other) => other = query.new


\* ---------------------------------------------------------------------
\* C21: the checkout's from-tree

\* a new_revision or edit_revision call has handed its trees to check_out
CheckedOut(c) ==
    /\ call[c].op \in {"new", "edit"}
    /\ call[c].check_out \in {"done", "failed"}

\* the tree of the commit the View recorded for the workspace when the call
\* was invoked
TreeBefore(c) == commits[call[c].pre.wc_commit_ids[WorkspaceName]].tree

\* C21: in new_revision and edit_revision the from-tree of the checkout is the
\* tree of the commit the View recorded as the workspace's working copy before
\* the transaction, the target is the new commit or the edit target, and the
\* from-tree is not read from the View the transaction produced.
C21_FromTree ==
    \A c \in Callers :
      LET me == call[c] IN
        CheckedOut(c)
        => /\ WorkspaceName \in DOMAIN me.pre.wc_commit_ids
           /\ me.old_tree_id = TreeBefore(c)
           /\ me.commit = view.wc_commit_ids[WorkspaceName]
           /\ me.op = "new" => me.commit = Len(commits)
           /\ me.op = "edit" => me.commit \in ResolvedCommits(commits, me.pre, me.refs[1])
           /\ me.check_out = "done" => wc_tree = commits[me.commit].tree

\* a checkout whose from-tree differs from the tree of the commit the
\* transaction made the working copy: new on another commit, and edit
C21_Witness ==
    /\ \E c \in Callers :
         /\ CheckedOut(c) /\ call[c].op = "edit" /\ call[c].check_out = "done"
         /\ call[c].old_tree_id # commits[call[c].commit].tree
         /\ call[c].old_tree_id = call[c].pre_tree


\* ---------------------------------------------------------------------
\* C22: the single hunk and its counts

\* C22: compute_file_diff returns exactly one hunk with old_start = 1 and
\* new_start = 1; old_count is the number of lines that carry an old line
\* number, new_count the number of lines that carry a new one, and an empty
\* buffer on a side gives the count 0 on that side.
C22_SingleHunk ==
    Diffed =>
      LET hunks == query.result.hunks IN
        /\ Len(hunks) = 1
        /\ hunks[1].old_start = 1 /\ hunks[1].new_start = 1
        /\ hunks[1].old_count = Len(OldSide)
        /\ hunks[1].new_count = Len(NewSide)
        /\ hunks[1].old_count =
             Cardinality({ i \in 1..Len(HunkLines) :
                             HunkLines[i].line_type \in {"context", "remove"} })
        /\ hunks[1].new_count =
             Cardinality({ i \in 1..Len(HunkLines) :
                             HunkLines[i].line_type \in {"context", "add"} })
        /\ query.old = <<>> => hunks[1].old_count = 0
        /\ query.new = <<>> => hunks[1].new_count = 0

\* an empty old buffer against a buffer of two lines: counts 0 and 2
C22_Witness ==
    /\ Diffed
    /\ query.old = <<>> /\ query.new # <<>>
    /\ query.result.hunks[1].old_count = 0
    /\ query.result.hunks[1].new_count = 2

\* ---------------------------------------------------------------------
\* C23: the paths of a revision diff

Compared == query.kind = "revision"

\* the entries of the tree diff between the commit and its first parent
ChangedEntries ==
    IF Compared /\ query.parent_trees # <<>>
    THEN diff_stream(query.parent_trees[1], query.commit_tree)
    ELSE <<>>

\* a value of the tree: a regular file, or no entry at all
IsRegularFile(merge) == Len(merge) = 1 /\ IsFile(merge[1])
IsAbsent(merge) == merge = resolved(None)

\* the entries the diff is promised for: regular files on both sides, or a
\* regular file on one side and nothing on the other
FileEntries ==
    SelectSeq(ChangedEntries, LAMBDA e :
      \/ IsRegularFile(e.before) /\ IsRegularFile(e.after)
      \/ IsAbsent(e.before) /\ IsRegularFile(e.after)
      \/ IsRegularFile(e.before) /\ IsAbsent(e.after))

\* the paths of the promised entries whose file diff is not empty
PromisedPaths ==
    LET kept == SelectSeq(FileEntries, LAMBDA e :
                  ~file_diff_is_empty(file_diff(query.parent_trees[1],
                                                query.commit_tree, e.path)))
    IN [i \in 1..Len(kept) |-> kept[i].path]

\* C23: get_revision_diff compares a commit with its first parent only and
\* emits a file diff for exactly the changed paths whose before and after
\* values are regular files or absent on one side, in tree-diff order, without
\* the empty file diffs; each of these paths is listed by get_revision_changes,
\* and for a commit without a parent both return an error.
C23_RevisionDiff ==
    Compared =>
      /\ query.parent_trees = <<>>
           => query.diff.status = "err" /\ query.changes.status = "err"
      /\ query.diff.status = "ok" =>
           /\ [i \in 1..Len(query.diff.value) |-> query.diff.value[i].path] = PromisedPaths
           /\ query.changes.status = "ok"
           /\ \A i \in 1..Len(query.diff.value) :
                \E j \in 1..Len(query.changes.value) :
                  query.changes.value[j].path = query.diff.value[i].path

\* ---------------------------------------------------------------------
\* C24: interleaved mutations and the working directory

\* a jj_new or jj_edit call has returned success
Succeeded(c) ==
    /\ call[c].pc = "done" /\ call[c].op \in {"new", "edit"}
    /\ call[c].result = "ok"

\* C24: when two interleaved jj_new / jj_edit calls on one repository have both
\* returned success, the directory holds the tree of the commit the View
\* records as the workspace's working copy, and the from-tree of each checkout
\* was the tree the directory held when that checkout started.
C24_InterleavedCheckouts ==
    \A c1, c2 \in Callers :
      (c1 # c2 /\ Succeeded(c1) /\ Succeeded(c2))
      => /\ wc_tree = commits[view.wc_commit_ids[WorkspaceName]].tree
         /\ call[c1].old_tree_id = call[c1].dir_tree
         /\ call[c2].old_tree_id = call[c2].dir_tree

\* ---------------------------------------------------------------------
\* C25: the range of the prefix length

\* C25: for every commit fetch_log processes the prefix length is between 1
\* and the length of the encoded change id, so the slice never panics and
\* change_id_short is a non-empty prefix of change_id, with "/index" after it
\* for a divergent commit.
C25_PrefixLenInRange ==
    Fetched =>
      /\ query.result.status # "panic"
      /\ \A i \in 1..Len(Returned) :
           LET rev == Returned[i]
               prefix == PrefixOf(rev.change_id_short)
               rest == SubSeq(rev.change_id_short, Len(prefix) + 1,
                              Len(rev.change_id_short))
           IN /\ Len(prefix) \in 1..Len(rev.change_id)
              /\ IsPrefix(prefix, rev.change_id)
              /\ rest = IF rev.divergent_index = NoIndex
                        THEN <<>>
                        ELSE <<"/">> \o Decimal(rev.divergent_index)

\* ---------------------------------------------------------------------
\* C26: the timestamp of the root commit

Stamped == query.kind = "format_timestamp"

Units ==
    {" seconds ago", " minutes ago", " hours ago", " days ago", " weeks ago",
     " months ago", " years ago"}

\* a text of the form "N <unit> ago"
IsRelative(text) ==
    /\ Len(text) >= 2
    /\ text[Len(text)] \in Units
    /\ \A i \in 1..(Len(text) - 1) : text[i] \in Range(Digits)

\* C26: format_timestamp returns "root" for the root commit, whose change id
\* is all zero bytes and is encoded as a string of 'z' characters, and a
\* relative "N <unit> ago" text for every other commit.
C26_RootTimestamp ==
    Stamped =>
      /\ \A i \in 1..Len(format_change_id(RootChange)) :
           format_change_id(RootChange)[i] = "z"
      /\ IF commits[query.commit_id].change_id = RootChange
         THEN query.result = <<"root">>
         ELSE IsRelative(query.result)

\* ---------------------------------------------------------------------
\* C27: the watcher registry

Watched(path) == watchers[path] # None

\* what holds of the registry after any sequence of calls, and of a call that
\* has just returned, whatever the path's directory
WatcherRegistry ==
    /\ \A path \in WatchPaths : Watched(path) <=> LastChange[path] = "watch"
    /\ \A p1, p2 \in WatchPaths :
         (Watched(p1) /\ Watched(p2) /\ watchers[p1] = watchers[p2]) => p1 = p2
    /\ last.op = "watch" =>
         /\ last.before[last.path] # None
              => last.result = "ok" /\ watchers = last.before
         /\ last.result # "ok" => watchers = last.before
         /\ last.result = "ok" => Watched(last.path)
    /\ last.op = "unwatch" =>
         /\ last.result = "ok"
         /\ ~Watched(last.path)
         /\ \A path \in WatchPaths \ {last.path} : watchers[path] = last.before[path]

\* C27: after any sequence of watch and unwatch calls a path has at most one
\* watcher and is watched exactly when the last call that changed the registry
\* for it was a successful watch; watch on a watched path returns Ok and keeps
\* the watcher, watch on a path that is not watched and has no .jj/repo
\* returns Err and leaves the registry as it is, unwatch removes the watcher
\* and returns Ok also for a path that was not watched.
C27_WatcherRegistry ==
    /\ WatcherRegistry
    /\ (last.op = "watch" /\ ~last.had_repo_dir /\ last.before[last.path] = None)
         => last.result # "ok" /\ watchers = last.before

\* the statement as written: watch on any path without .jj/repo returns Err
C27_AsWritten ==
    /\ WatcherRegistry
    /\ (last.op = "watch" /\ ~last.had_repo_dir)
         => last.result # "ok" /\ watchers = last.before

\* watch is called again on a watched path whose .jj/repo has gone: it
\* returns Ok and the watcher stays
C27_Witness ==
    /\ last.op = "watch" /\ ~last.had_repo_dir
    /\ last.before[last.path] # None
    /\ last.result = "ok" /\ watchers = last.before

\* ---------------------------------------------------------------------
\* C28: a failing write of the layout

\* update_layout or delete_project has just returned
LayoutCall == last.op \in {"update_layout", "delete_project"}

\* C28: when persisting the layout fails inside update_layout or
\* delete_project the call returns an error and get_layout still returns the
\* layout from before the call, so the layout in memory always equals the
\* layout stored under the key 'main'.
C28_FailedPersist ==
    /\ (LayoutCall /\ last.result # "ok") => get_layout = last.before
    /\ get_layout = load_layout(db)

\* ---------------------------------------------------------------------
\* C29: the layout after delete_project

\* C29: after delete_project(id) has returned successfully the active project
\* is not id: when the deleted project was the active one the active project
\* and the selection are cleared, otherwise the layout is as it was, also when
\* update_layout calls ran between the DELETE and the clearing.
C29_DeletedNotActive ==
    (last.op = "delete_project" /\ last.result = "ok") =>
      /\ layout = last.after
      /\ layout.active_project_id # Some(last.id)
      /\ IF last.before.active_project_id = Some(last.id)
         THEN /\ layout.active_project_id = None
              /\ layout.selected_change_id = None
              /\ layout.sidebar_width = last.before.sidebar_width
         ELSE layout = last.before

\* an update_layout made the project active, with a selection, after its row
\* had been deleted, and delete_project cleared both
C29_Witness ==
    /\ last.op = "delete_project" /\ last.result = "ok"
    /\ last.active_at_delete # Some(last.id)
    /\ last.before.active_project_id = Some(last.id)
    /\ last.before.selected_change_id # None
    /\ layout.active_project_id = None /\ layout.selected_change_id = None

\* ---------------------------------------------------------------------
\* C30: update_layout merges field by field

\* C30: update_layout keeps the active project when the update has none,
\* keeps the width when the update's width is 0, and replaces the selection
\* by the update's value exactly when the update carries a selection or an
\* active project; every other field stays as it was.
C30_FieldMerge ==
    last.op = "update_layout" =>
      LET before == last.before
          updates == last.updates
      IN /\ layout = last.after
         /\ layout.active_project_id =
              IF updates.active_project_id = None
              THEN before.active_project_id ELSE updates.active_project_id
         /\ layout.sidebar_width =
              IF updates.sidebar_width = 0
              THEN before.sidebar_width ELSE updates.sidebar_width
         /\ IF updates.selected_change_id # None \/ updates.active_project_id # None
            THEN layout.selected_change_id = updates.selected_change_id
            ELSE layout.selected_change_id = before.selected_change_id
         /\ last.result = "ok" => load_layout(db) = layout

\* a new active project without a selection clears the selection that was
\* there and leaves the width alone
C30_Witness ==
    /\ last.op = "update_layout" /\ last.result = "ok"
    /\ last.updates.active_project_id # None
    /\ last.updates.selected_change_id = None /\ last.updates.sidebar_width = 0
    /\ last.before.selected_change_id # None
    /\ last.before.sidebar_width # DefaultLayout.sidebar_width
    /\ layout.selected_change_id = None
    /\ layout.sidebar_width = last.before.sidebar_width

=============================================================================
